---- MODULE Spec2Model ----
(***************************************************************************)
(* Per-faction uniform spatial grid (SpatialGrid / FactionGrid) of the RTS *)
(* demo, with the part of the entity registry it reads and writes          *)
(* (Position, Faction, SpatialNode).                                       *)
(*                                                                         *)
(* World coordinates are floats in the program.  The model keeps them on   *)
(* an integer lattice, on which the float operations used by the grid      *)
(* (division by the cell size, truncation, subtraction, squaring) are      *)
(* exact.                                                                  *)
(***************************************************************************)
EXTENDS Integers, Sequences, FiniteSets

\* ------------------------------------------------------------------ bounds
NumEntities == 3
NegExtent == 2
MaxCoord == 4
MaxRadius == 2
MaxCount == 3
\* the world the grid is constructed over: WorldCols x WorldRows cells
WorldCols == 2
WorldRows == 2
_cell_size == 2

\* ------------------------------------------------------- program constants
MAX_FACTIONS == 8
\* SpatialGrid's constructor arguments width and height
_width == WorldCols * _cell_size
_height == WorldRows * _cell_size

\* entt::null
NULL == 0
Entity == 1 .. NumEntities
\* query coordinates: one below the world (clamped into cell 0), those of
\* cell 0 and the first of cell 1, one beyond the world (clamped into cell 1)
Coord == {0 - NegExtent} \cup (0 .. _cell_size) \cup {MaxCoord}
Vec2(x, y) == [x |-> x, y |-> y]
Lattice == {Vec2(x, y) : x \in Coord, y \in Coord}

_cols == _width \div _cell_size
_rows == _height \div _cell_size
NumCells == _cols * _rows
Factions == 0 .. (MAX_FACTIONS - 1)

VARIABLES
  position,      \* Position.value of every entity
  faction,       \* Faction component: [has, id]
  node,          \* SpatialNode component: [has, next, prev, cell_index, faction]
  cells,         \* cells[f][c]: head of the bucket of faction f, cell c
  entity_count,  \* entity_count[f]: FactionGrid::_entity_count
  valid,         \* entities created in the registry
  call,          \* the last call made on the grid, with what it returned
  health,        \* Health component: [has, current, max, shield]
  movement,      \* Movement component: [has, velocity, target, speed]
  direct_damage, \* DirectDamage component: [has, damage, range, cooldown, timer]
  emitter,       \* ProjectileEmitter component
  attack_target, \* AttackTarget component: [has, target]
  attacking,     \* the entities carrying StateAttackingTag
  healer,        \* Healer component: [has, heal_amount, range, cooldown, timer]
  follow,        \* Follow component
  projectile,    \* the projectile entities: Projectile, Position, Movement
  _targeting_timer, \* GameplaySystem::_targeting_timer
  stage,         \* where GameplaySystem::update stands
  dt,            \* the dt of the update that is running
  ticks          \* updates begun so far

\* the state of the spatial grid and of the registry it reads
gridvars == <<position, faction, node, cells, entity_count, valid, call>>

\* the components and fields GameplaySystem works on
gameplay == <<health, movement, direct_damage, emitter, attack_target, attacking,
              healer, follow, projectile, _targeting_timer, stage, dt, ticks>>

vars == <<position, faction, node, cells, entity_count, valid, call,
          health, movement, direct_damage, emitter, attack_target, attacking,
          healer, follow, projectile, _targeting_timer, stage, dt, ticks>>

\* --------------------------------------------------------------- helpers
Max(a, b) == IF a >= b THEN a ELSE b
Min(a, b) == IF a <= b THEN a ELSE b

\* static_cast<int>(a / b) for b > 0: the quotient truncated toward zero
TruncDiv(a, b) == IF a >= 0 THEN a \div b ELSE 0 - ((0 - a) \div b)

NoNode == [has |-> FALSE, next |-> NULL, prev |-> NULL, cell_index |-> -1, faction |-> -1]
NoFaction == [has |-> FALSE, id |-> -1]

\* the part of the state the grid operations work on
Grid == [cells |-> cells, entity_count |-> entity_count, node |-> node]

\* ------------------------------------------------------- cell arithmetic
\* the cell coordinate rounded to the nearest cell border before the clamp
CellCoord_nearest(v, n) ==
  Max(0, Min(TruncDiv(v + _cell_size \div 2, _cell_size), n - 1))

\* SpatialGrid::getCellCoords, one axis: truncate, then clamp to the grid
CellCoord(v, n) == Max(0, Min(TruncDiv(v, _cell_size), n - 1))

getCellCoords(pos) == [x |-> CellCoord(pos.x, _cols), y |-> CellCoord(pos.y, _rows)]

getCellIndex(pos) == CellCoord(pos.x, _cols) + CellCoord(pos.y, _rows) * _cols

\* Vec2::distance_squared
distance_squared(a, b) == (b.x - a.x) * (b.x - a.x) + (b.y - a.y) * (b.y - a.y)

\* ------------------------------------------------------------ FactionGrid
\* FactionGrid::Insert that does not point the old head back at entity
FactionGrid_Insert_noBackLink(S, f, cell_index, entity) ==
  LET head == S.cells[f][cell_index]
      n0 == IF S.node[entity].has THEN S.node
            ELSE [S.node EXCEPT ![entity] = [NoNode EXCEPT !.has = TRUE]]
      n1 == [n0 EXCEPT ![entity].next = head, ![entity].prev = NULL]
  IN [cells |-> [S.cells EXCEPT ![f][cell_index] = entity],
      entity_count |-> [S.entity_count EXCEPT ![f] = @ + 1],
      node |-> n1]

\* FactionGrid::Insert: prepend entity to the bucket cell_index of partition f
FactionGrid_Insert(S, f, cell_index, entity) ==
  LET head == S.cells[f][cell_index]
      n0 == IF S.node[entity].has THEN S.node
            ELSE [S.node EXCEPT ![entity] = [NoNode EXCEPT !.has = TRUE]]
      n1 == [n0 EXCEPT ![entity].next = head, ![entity].prev = NULL]
      n2 == IF head # NULL THEN [n1 EXCEPT ![head].prev = entity] ELSE n1
  IN [cells |-> [S.cells EXCEPT ![f][cell_index] = entity],
      entity_count |-> [S.entity_count EXCEPT ![f] = @ + 1],
      node |-> n2]

\* FactionGrid::Remove that leaves the bucket head alone
FactionGrid_Remove_keepHead(S, f, cell_index, entity) ==
  IF ~S.node[entity].has THEN S
  ELSE
    LET nd == S.node[entity]
        n1 == IF nd.prev # NULL THEN [S.node EXCEPT ![nd.prev].next = nd.next]
              ELSE S.node
        nx == n1[entity].next
        n2 == IF nx # NULL THEN [n1 EXCEPT ![nx].prev = n1[entity].prev] ELSE n1
    IN [cells |-> S.cells,
        entity_count |-> [S.entity_count EXCEPT ![f] = @ - 1],
        node |-> n2]

\* FactionGrid::Remove that leaves the predecessor's next link alone
FactionGrid_Remove_keepPrev(S, f, cell_index, entity) ==
  IF ~S.node[entity].has THEN S
  ELSE
    LET nd == S.node[entity]
        c1 == IF nd.prev # NULL THEN S.cells
              ELSE [S.cells EXCEPT ![f][cell_index] = nd.next]
        nx == nd.next
        n2 == IF nx # NULL THEN [S.node EXCEPT ![nx].prev = nd.prev] ELSE S.node
    IN [cells |-> c1,
        entity_count |-> [S.entity_count EXCEPT ![f] = @ - 1],
        node |-> n2]

\* FactionGrid::Remove: unlink entity from the bucket cell_index of partition f
FactionGrid_Remove(S, f, cell_index, entity) ==
  IF ~S.node[entity].has THEN S
  ELSE
    LET nd == S.node[entity]
        n1 == IF nd.prev # NULL THEN [S.node EXCEPT ![nd.prev].next = nd.next]
              ELSE S.node
        c1 == IF nd.prev # NULL THEN S.cells
              ELSE [S.cells EXCEPT ![f][cell_index] = nd.next]
        nx == n1[entity].next
        n2 == IF nx # NULL THEN [n1 EXCEPT ![nx].prev = n1[entity].prev] ELSE n1
    IN [cells |-> c1,
        entity_count |-> [S.entity_count EXCEPT ![f] = @ - 1],
        node |-> n2]

\* FactionGrid::Clear, for every partition (SpatialGrid::Clear)
SpatialGrid_Clear(S) ==
  [cells |-> [f \in Factions |-> [c \in 0 .. (NumCells - 1) |-> NULL]],
   entity_count |-> [f \in Factions |-> 0],
   node |-> S.node]

\* FactionGrid::IsEmpty
IsEmpty(S, f) == S.entity_count[f] = 0

\* ------------------------------------------------------------ SpatialGrid
\* SpatialGrid::Insert that files an entity without Faction under partition 0
SpatialGrid_Insert_anyEntity(S, fac, entity, pos, arg) ==
  LET entity_faction == IF arg # -1 THEN arg ELSE IF fac.has THEN fac.id ELSE 0 IN
  IF entity_faction < 0 \/ entity_faction >= MAX_FACTIONS THEN S
  ELSE
    LET cell_index == getCellIndex(pos)
        n0 == IF S.node[entity].has THEN S.node
              ELSE [S.node EXCEPT ![entity] = [NoNode EXCEPT !.has = TRUE]]
        n1 == [n0 EXCEPT ![entity].cell_index = cell_index,
                         ![entity].faction = entity_faction]
    IN FactionGrid_Insert([S EXCEPT !.node = n1], entity_faction, cell_index, entity)

\* SpatialGrid::Insert that emplaces the Spatial Node before its checks
SpatialGrid_Insert_nodeFirst(S, fac, entity, pos, arg) ==
  LET n0 == IF S.node[entity].has THEN S.node
            ELSE [S.node EXCEPT ![entity] = [NoNode EXCEPT !.has = TRUE]]
  IN IF arg = -1 /\ ~fac.has THEN [S EXCEPT !.node = n0]
     ELSE
       LET entity_faction == IF arg = -1 THEN fac.id ELSE arg IN
       IF entity_faction < 0 \/ entity_faction >= MAX_FACTIONS THEN [S EXCEPT !.node = n0]
       ELSE
         LET cell_index == getCellIndex(pos)
             n1 == [n0 EXCEPT ![entity].cell_index = cell_index,
                              ![entity].faction = entity_faction]
         IN FactionGrid_Insert([S EXCEPT !.node = n1], entity_faction, cell_index, entity)

\* SpatialGrid::Insert(entity, pos, faction); fac is the entity's Faction
\* component, arg the faction argument (-1: read it from the component)
SpatialGrid_Insert(S, fac, entity, pos, arg) ==
  IF arg = -1 /\ ~fac.has THEN S
  ELSE
    LET entity_faction == IF arg = -1 THEN fac.id ELSE arg IN
    IF entity_faction < 0 \/ entity_faction >= MAX_FACTIONS THEN S
    ELSE
      LET cell_index == getCellIndex(pos)
          n0 == IF S.node[entity].has THEN S.node
                ELSE [S.node EXCEPT ![entity] = [NoNode EXCEPT !.has = TRUE]]
          n1 == [n0 EXCEPT ![entity].cell_index = cell_index,
                           ![entity].faction = entity_faction]
      IN FactionGrid_Insert([S EXCEPT !.node = n1], entity_faction, cell_index, entity)

\* SpatialGrid::Remove(entity)
SpatialGrid_Remove(S, entity) ==
  IF ~S.node[entity].has THEN S
  ELSE
    LET f == S.node[entity].faction
        cell_index == S.node[entity].cell_index
    IN IF f = -1 \/ cell_index = -1 THEN S
       ELSE IF f < 0 \/ f >= MAX_FACTIONS THEN S
       ELSE LET R == FactionGrid_Remove(S, f, cell_index, entity)
            IN [R EXCEPT !.node[entity].cell_index = -1,
                         !.node[entity].faction = -1]

\* SpatialGrid::Update that inserts at the new cell without removing first
SpatialGrid_Update_noRemove(S, fac, entity, old_pos, new_pos) ==
  IF ~S.node[entity].has THEN SpatialGrid_Insert(S, fac, entity, new_pos, -1)
  ELSE
    LET old_faction == S.node[entity].faction
        old_idx == getCellIndex(old_pos)
        new_idx == getCellIndex(new_pos)
    IN IF ~fac.has THEN SpatialGrid_Remove(S, entity)
       ELSE IF old_idx # new_idx \/ old_faction # fac.id
            THEN SpatialGrid_Insert(S, fac, entity, new_pos, fac.id)
            ELSE S

\* SpatialGrid::Update without the "cell or faction changed" test
SpatialGrid_Update_always(S, fac, entity, old_pos, new_pos) ==
  IF ~S.node[entity].has THEN SpatialGrid_Insert(S, fac, entity, new_pos, -1)
  ELSE IF ~fac.has THEN SpatialGrid_Remove(S, entity)
  ELSE SpatialGrid_Insert(SpatialGrid_Remove(S, entity), fac, entity, new_pos, fac.id)

\* SpatialGrid::Update(entity, old_pos, new_pos)
SpatialGrid_Update(S, fac, entity, old_pos, new_pos) ==
  IF ~S.node[entity].has THEN SpatialGrid_Insert(S, fac, entity, new_pos, -1)
  ELSE
    LET old_faction == S.node[entity].faction
        old_idx == getCellIndex(old_pos)
        new_idx == getCellIndex(new_pos)
    IN IF ~fac.has THEN SpatialGrid_Remove(S, entity)
       ELSE IF old_idx # new_idx \/ old_faction # fac.id
            THEN SpatialGrid_Insert(SpatialGrid_Remove(S, entity), fac, entity, new_pos, fac.id)
            ELSE S

\* ---------------------------------------------------------------- queries
\* the while loop of FactionGrid::Query over one bucket: the entities handed
\* to the callback, in order.  A bucket of more than NumEntities links is
\* cyclic; the walk is cut there (the program would not return).
RECURSIVE Walk(_, _, _)
Walk(nodes, curr, fuel) ==
  IF curr = NULL \/ fuel = 0 THEN <<>>
  ELSE <<curr>> \o Walk(nodes, nodes[curr].next, fuel - 1)

WalkFuel == NumEntities + 1

\* the x loop of FactionGrid::Query for one row y
RECURSIVE QueryRow(_, _, _, _, _)
QueryRow(S, f, x, max_x, y) ==
  IF x > max_x THEN <<>>
  ELSE Walk(S.node, S.cells[f][x + y * _cols], WalkFuel) \o QueryRow(S, f, x + 1, max_x, y)

\* FactionGrid::Query: rows min_y..max_y, in each the cells min_x..max_x
RECURSIVE FactionGrid_Query(_, _, _, _, _, _)
FactionGrid_Query(S, f, min_x, min_y, max_x, max_y) ==
  IF min_y > max_y THEN <<>>
  ELSE QueryRow(S, f, min_x, max_x, min_y) \o FactionGrid_Query(S, f, min_x, min_y + 1, max_x, max_y)

\* SpatialGrid::forEachRelevantGrid: the partitions visited, in order
RECURSIVE GridsFrom(_, _, _)
GridsFrom(S, i, skip) ==
  IF i >= MAX_FACTIONS THEN <<>>
  ELSE (IF i = skip \/ IsEmpty(S, i) THEN <<>> ELSE <<i>>) \o GridsFrom(S, i + 1, skip)

\* forEachRelevantGrid without the "skip same faction" test
forEachRelevantGrid_noSkip(S, fa, same_faction) ==
  IF fa >= 0 /\ fa < MAX_FACTIONS
  THEN IF same_faction
       THEN (IF ~IsEmpty(S, fa) THEN <<fa>> ELSE <<>>)
       ELSE GridsFrom(S, 0, -1)
  ELSE GridsFrom(S, 0, -1)

forEachRelevantGrid(S, fa, same_faction) ==
  IF fa >= 0 /\ fa < MAX_FACTIONS
  THEN IF same_faction
       THEN (IF ~IsEmpty(S, fa) THEN <<fa>> ELSE <<>>)
       ELSE GridsFrom(S, 0, fa)
  ELSE GridsFrom(S, 0, -1)

\* the entities the coarse pass hands to the fine filter: for each partition
\* of gs in turn, FactionGrid::Query over the cell range of (min, max)
RECURSIVE Candidates(_, _, _, _)
Candidates(S, gs, min, max) ==
  IF gs = <<>> THEN <<>>
  ELSE LET s == getCellCoords(min)
           e == getCellCoords(max)
       IN FactionGrid_Query(S, Head(gs), s.x, s.y, e.x, e.y) \o Candidates(S, Tail(gs), min, max)

\* registry.all_of<Position>(e): every created entity carries a Position
HasPosition(V, e) == e \in V

InRect(p, min, max) == p.x >= min.x /\ p.x <= max.x /\ p.y >= min.y /\ p.y <= max.y

\* QueryRect without the position check of its callback: coarse pass only
QueryRect_coarse(S, V, P, min, max) ==
  LET Keep(e) == HasPosition(V, e)
  IN SelectSeq(Candidates(S, GridsFrom(S, 0, -1), min, max), Keep)

\* SpatialGrid::QueryRect: the entities passed to the callback, in order
QueryRect(S, V, P, min, max) ==
  LET Keep(e) == HasPosition(V, e) /\ InRect(P[e], min, max)
  IN SelectSeq(Candidates(S, GridsFrom(S, 0, -1), min, max), Keep)

\* QueryRadius comparing with < instead of <=
QueryRadius_strict(S, V, P, pos, radius, fa, same_faction) ==
  LET min == Vec2(pos.x - radius, pos.y - radius)
      max == Vec2(pos.x + radius, pos.y + radius)
      radius_sq == radius * radius
      Keep(e) == HasPosition(V, e) /\ distance_squared(pos, P[e]) < radius_sq
  IN SelectSeq(Candidates(S, forEachRelevantGrid(S, fa, same_faction), min, max), Keep)

\* SpatialGrid::QueryRadius: the entities passed to the callback, in order
QueryRadius(S, V, P, pos, radius, fa, same_faction) ==
  LET min == Vec2(pos.x - radius, pos.y - radius)
      max == Vec2(pos.x + radius, pos.y + radius)
      radius_sq == radius * radius
      Keep(e) == HasPosition(V, e) /\ distance_squared(pos, P[e]) <= radius_sq
  IN SelectSeq(Candidates(S, forEachRelevantGrid(S, fa, same_faction), min, max), Keep)

\* the running best without the comparison against the best so far
RECURSIVE Nearest_anyInRange(_, _, _, _, _, _, _)
Nearest_anyInRange(cs, V, P, pos, radius_sq, best_entity, best_dist_sq) ==
  IF cs = <<>> THEN best_entity
  ELSE LET e == Head(cs)
           dist_sq == distance_squared(pos, P[e])
       IN IF HasPosition(V, e) /\ dist_sq < radius_sq
          THEN Nearest_anyInRange(Tail(cs), V, P, pos, radius_sq, e, dist_sq)
          ELSE Nearest_anyInRange(Tail(cs), V, P, pos, radius_sq, best_entity, best_dist_sq)

\* the running best of SpatialGrid::FindNearest over the candidates cs
RECURSIVE Nearest(_, _, _, _, _, _, _)
Nearest(cs, V, P, pos, radius_sq, best_entity, best_dist_sq) ==
  IF cs = <<>> THEN best_entity
  ELSE LET e == Head(cs)
           dist_sq == distance_squared(pos, P[e])
       IN IF HasPosition(V, e) /\ dist_sq <= radius_sq /\ dist_sq < best_dist_sq
          THEN Nearest(Tail(cs), V, P, pos, radius_sq, e, dist_sq)
          ELSE Nearest(Tail(cs), V, P, pos, radius_sq, best_entity, best_dist_sq)

\* FindNearest whose best distance starts above the radius
FindNearest_inclusive(S, V, P, pos, radius, fa, same_faction) ==
  LET min == Vec2(pos.x - radius, pos.y - radius)
      max == Vec2(pos.x + radius, pos.y + radius)
  IN Nearest(Candidates(S, forEachRelevantGrid(S, fa, same_faction), min, max),
             V, P, pos, radius * radius, NULL, radius * radius + 1)

\* SpatialGrid::FindNearest
FindNearest(S, V, P, pos, radius, fa, same_faction) ==
  LET min == Vec2(pos.x - radius, pos.y - radius)
      max == Vec2(pos.x + radius, pos.y + radius)
  IN Nearest(Candidates(S, forEachRelevantGrid(S, fa, same_faction), min, max),
             V, P, pos, radius * radius, NULL, radius * radius)

\* ------------------------------------------------------------- components
\* projectile entities in flight at once, and updates a behaviour runs
MaxShots == 2
MaxTicks == 2

\* the entities update_ranged_combat creates: they carry Position, Projectile,
\* Movement and Unit, never Faction, Health or SpatialNode, so they are kept
\* apart from the entities the grid and the unit views range over
Shot == 1 .. MaxShots

\* an entity without the component
NoHealth == [has |-> FALSE, current |-> 0, max |-> 0, shield |-> 0]
NoMovement == [has |-> FALSE, velocity |-> Vec2(0, 0), target |-> Vec2(0, 0), speed |-> 0]
NoDirectDamage == [has |-> FALSE, damage |-> 0, range |-> 0, cooldown |-> 0, timer |-> 0]
NoProjectileEmitter ==
  [has |-> FALSE, damage |-> 0, range |-> 0, cooldown |-> 0, timer |-> 0,
   projectile_speed |-> 0, projectile_type |-> 0, aoe_radius |-> 0]
NoAttackTarget == [has |-> FALSE, target |-> NULL]
NoHealer == [has |-> FALSE, heal_amount |-> 0, range |-> 0, cooldown |-> 0, timer |-> 0]
NoFollow ==
  [has |-> FALSE, target |-> NULL, speed |-> 0, followRange |-> 0, searchRadius |-> 0,
   targetCooldown |-> 0, targetTimer |-> 0]
\* a projectile id that registry.create() has not handed out, or destroyed;
\* node is the SpatialNode of the projectile entity, should a call emplace one;
\* aimed_at remembers the entity it was fired at, which no code reads
NoProjectile ==
  [valid |-> FALSE, position |-> Vec2(0, 0), velocity |-> Vec2(0, 0), target |-> Vec2(0, 0),
   damage |-> 0, faction |-> 0, is_aoe |-> FALSE, aoe_radius |-> 0, node |-> NoNode,
   aimed_at |-> NULL]

\* ------------------------------------------------------------ state, calls
\* call records the last call a specification keeps track of: the operation,
\* its entity, whether the entity was indexed before it, whether an Update
\* was given positions of two different cells, and for a query its arguments
\* and what it returned; stale says that a traversal read a link through its
\* reference to the SpatialNode of an entity its callback had destroyed
NoCall ==
  [op |-> "none", e |-> NULL, was |-> FALSE, crossed |-> FALSE,
   a |-> Vec2(0, 0), b |-> Vec2(0, 0), r |-> 0, f |-> -1, same |-> FALSE,
   out |-> <<>>, ret |-> NULL, stale |-> FALSE]

\* the entity is chained according to its SpatialNode
Indexed(e) == node[e].has /\ node[e].cell_index # -1

Apply(S) == cells' = S.cells /\ entity_count' = S.entity_count /\ node' = S.node

Init ==
  /\ position = [e \in Entity |-> Vec2(0, 0)]
  /\ faction = [e \in Entity |-> NoFaction]
  /\ node = [e \in Entity |-> NoNode]
  /\ cells = [f \in Factions |-> [c \in 0 .. (NumCells - 1) |-> NULL]]
  /\ entity_count = [f \in Factions |-> 0]
  /\ valid = {}
  /\ call = NoCall
  /\ health = [e \in Entity |-> NoHealth]
  /\ movement = [e \in Entity |-> NoMovement]
  /\ direct_damage = [e \in Entity |-> NoDirectDamage]
  /\ emitter = [e \in Entity |-> NoProjectileEmitter]
  /\ attack_target = [e \in Entity |-> NoAttackTarget]
  /\ attacking = {}
  /\ healer = [e \in Entity |-> NoHealer]
  /\ follow = [e \in Entity |-> NoFollow]
  /\ projectile = [s \in Shot |-> NoProjectile]
  /\ _targeting_timer = 0
  /\ stage = "idle"
  /\ dt = 0
  /\ ticks = 0

\* the test fixture's createEntity(pos, faction): registry.create(), emplace
\* Position, emplace Faction when faction >= 0, grid->Insert(entity, pos)
createEntity(e, pos, f) ==
  LET fac == IF f >= 0 THEN [has |-> TRUE, id |-> f] ELSE NoFaction IN
  /\ e \notin valid
  /\ valid' = valid \cup {e}
  /\ position' = [position EXCEPT ![e] = pos]
  /\ faction' = [faction EXCEPT ![e] = fac]
  /\ Apply(SpatialGrid_Insert(Grid, fac, e, pos, -1))
  /\ UNCHANGED gameplay

\* grid.Insert(e, Position(e), arg) on an entity that is not indexed
Insert(e, arg) ==
  /\ e \in valid
  /\ ~Indexed(e)
  /\ Apply(SpatialGrid_Insert(Grid, faction[e], e, position[e], arg))
  /\ UNCHANGED <<position, faction, valid>>
  /\ UNCHANGED gameplay

\* grid.Remove(e)
Remove(e) ==
  /\ e \in valid
  /\ Apply(SpatialGrid_Remove(Grid, e))
  /\ UNCHANGED <<position, faction, valid>>
  /\ UNCHANGED gameplay

\* a mover (update_movement, update_follow): write the new Position, then
\* grid.Update(entity, old_pos, pos.value)
Move(e, p) ==
  /\ e \in valid
  /\ position' = [position EXCEPT ![e] = p]
  /\ Apply(SpatialGrid_Update(Grid, faction[e], e, position[e], p))
  /\ UNCHANGED <<faction, valid>>
  /\ UNCHANGED gameplay

\* grid.QueryRect(min, max, callback)
DoQueryRect(min, max) ==
  /\ call' = [NoCall EXCEPT !.op = "QueryRect", !.a = min, !.b = max,
                            !.out = QueryRect(Grid, valid, position, min, max)]
  /\ UNCHANGED <<position, faction, node, cells, entity_count, valid>>
  /\ UNCHANGED gameplay

\* grid.QueryRadius(pos, radius, callback, faction, same_faction)
DoQueryRadius(pos, radius, fa, same_faction) ==
  /\ call' = [NoCall EXCEPT !.op = "QueryRadius", !.a = pos, !.r = radius, !.f = fa,
                            !.same = same_faction,
                            !.out = QueryRadius(Grid, valid, position, pos, radius, fa, same_faction)]
  /\ UNCHANGED <<position, faction, node, cells, entity_count, valid>>
  /\ UNCHANGED gameplay

\* grid.FindNearest(pos, radius, faction, same_faction)
DoFindNearest(pos, radius, fa, same_faction) ==
  /\ call' = [NoCall EXCEPT !.op = "FindNearest", !.a = pos, !.r = radius, !.f = fa,
                            !.same = same_faction,
                            !.ret = FindNearest(Grid, valid, position, pos, radius, fa, same_faction)]
  /\ UNCHANGED <<position, faction, node, cells, entity_count, valid>>
  /\ UNCHANGED gameplay

\* ---------------------------------------------------------- specifications
\* factions given to created entities (-1: created without a Faction)
EntityFactions == {-1, 0, MAX_FACTIONS - 1}

\* positions entities are placed at: clamped below zero (cell 0), inside cell 0,
\* on the border of cells 0 and 1 (cell 1), and truncated toward zero in x
\* while beyond the world in y (cell 2)
Spots == {Vec2(-2, -2), Vec2(1, 1), Vec2(2, 1), Vec2(-1, 4)}

\* the first three of them: two positions of cell 0 and one of cell 1
NearSpots == {Vec2(-2, -2), Vec2(1, 1), Vec2(2, 1)}

\* faction arguments of the filtered queries: none, a partition entities are
\* created in, a partition nothing is created in
QueryFactions == {-1, 0, 1}

Called(op, e, crossed) ==
  call' = [NoCall EXCEPT !.op = op, !.e = e, !.was = Indexed(e), !.crossed = crossed]

\* The grid driven the way its callers drive it: entities are created and
\* inserted at their Position, moved with Update, removed, inserted again.
NextGrid ==
  \/ \E e \in Entity, pos \in NearSpots, f \in EntityFactions :
       createEntity(e, pos, f) /\ Called("Insert", e, FALSE)
  \/ \E e \in Entity : \E arg \in {-1, faction[e].id} :
       Insert(e, arg) /\ Called("Insert", e, FALSE)
  \/ \E e \in Entity : Remove(e) /\ Called("Remove", e, FALSE)
  \/ \E e \in Entity, p \in NearSpots :
       Move(e, p) /\ Called("Update", e, getCellIndex(position[e]) # getCellIndex(p))

SpecGrid == Init /\ [][NextGrid]_vars

\* grid.Insert(e, pos, arg) whether or not e is indexed
InsertAny(e, pos, arg) ==
  /\ e \in valid
  /\ \A f \in Factions : entity_count[f] < MaxCount
  /\ Apply(SpatialGrid_Insert(Grid, faction[e], e, pos, arg))
  /\ UNCHANGED <<position, faction, valid>>
  /\ UNCHANGED gameplay

\* grid.Update(e, old_pos, new_pos) with any two positions
UpdateAny(e, old_pos, new_pos) ==
  /\ e \in valid
  /\ \A f \in Factions : entity_count[f] < MaxCount
  /\ Apply(SpatialGrid_Update(Grid, faction[e], e, old_pos, new_pos))
  /\ UNCHANGED <<position, faction, valid>>
  /\ UNCHANGED gameplay

\* positions of the unrestricted calls: one of cell 0, one of cell 1
CallSpots == {Vec2(1, 1), Vec2(2, 1)}

\* The public interface called in any order with any arguments: Insert also
\* on entities that are indexed already, Update with positions that are not
\* the entity's.
NextAnyCalls ==
  \/ \E e \in Entity, f \in EntityFactions :
       createEntity(e, Vec2(1, 1), f) /\ UNCHANGED call
  \/ \E e \in Entity, pos \in CallSpots : \E arg \in {-1, faction[e].id} :
       InsertAny(e, pos, arg) /\ UNCHANGED call
  \/ \E e \in Entity : Remove(e) /\ UNCHANGED call
  \/ \E e \in Entity, old_pos \in CallSpots, new_pos \in CallSpots :
       UpdateAny(e, old_pos, new_pos) /\ UNCHANGED call

SpecAnyCalls == Init /\ [][NextAnyCalls]_vars

\* a query has returned: call holds its arguments and what it returned
Answered == call.op \in {"QueryRect", "QueryRadius", "FindNearest"}

\* A population of faction-carrying entities, created and moved, then one
\* rectangle query over the lattice.  A query changes nothing but call, so a
\* behaviour that ends at its query reaches every pair of a grid state and a
\* query that longer behaviours reach.
NextRect ==
  /\ ~Answered
  /\ \/ \E e \in Entity, pos \in Spots, f \in EntityFactions \ {-1} :
          createEntity(e, pos, f) /\ UNCHANGED call
     \/ \E e \in Entity, p \in Spots : Move(e, p) /\ UNCHANGED call
     \/ \E min \in Lattice, max \in Lattice : DoQueryRect(min, max)

SpecRect == Init /\ [][NextRect]_vars

\* the same population, then one radius or nearest query
NextRadius ==
  /\ ~Answered
  /\ \/ \E e \in Entity, pos \in Spots, f \in EntityFactions \ {-1} :
          createEntity(e, pos, f) /\ UNCHANGED call
     \/ \E e \in Entity, p \in Spots : Move(e, p) /\ UNCHANGED call
     \/ \E pos \in Lattice, radius \in 0 .. MaxRadius, fa \in QueryFactions, same \in BOOLEAN :
          DoQueryRadius(pos, radius, fa, same)
     \/ \E pos \in Lattice, radius \in 0 .. MaxRadius, fa \in QueryFactions, same \in BOOLEAN :
          DoFindNearest(pos, radius, fa, same)

SpecRadius == Init /\ [][NextRadius]_vars

\* factions given to created entities when rejected insertions are looked
\* at: none, a valid one, the first id beyond the partitions
RejectFactions == {-1, 0, MAX_FACTIONS}

\* the Insert call of a step with its faction argument
CalledInsert(e, arg) ==
  call' = [NoCall EXCEPT !.op = "Insert", !.e = e, !.was = Indexed(e), !.f = arg]

\* Insertions with and without a usable faction: entities created with no
\* Faction, a valid one or an out-of-range one; Insert with the faction left
\* out or supplied as the callers supply it (the entity's own).
NextInsert ==
  \/ \E e \in Entity, pos \in NearSpots, f \in RejectFactions :
       createEntity(e, pos, f) /\ CalledInsert(e, -1)
  \/ \E e \in Entity : \E arg \in {-1, faction[e].id} :
       Insert(e, arg) /\ CalledInsert(e, arg)
  \/ \E e \in Entity : Remove(e) /\ Called("Remove", e, FALSE)

SpecInsert == Init /\ [][NextInsert]_vars

\* faction arguments of the queries over a mixed population: none, a
\* partition entities are created in, the first id beyond the partitions
MixedQueryFactions == {-1, 0, MAX_FACTIONS}

\* A population of entities with and without Faction, then one radius or
\* nearest query with a faction argument in or out of range.
NextMixed ==
  /\ ~Answered
  /\ \/ \E e \in Entity, pos \in NearSpots, f \in EntityFactions :
          createEntity(e, pos, f) /\ UNCHANGED call
     \/ \E pos \in Lattice, radius \in 0 .. MaxRadius, fa \in MixedQueryFactions,
           same \in BOOLEAN :
          DoQueryRadius(pos, radius, fa, same)
     \/ \E pos \in Lattice, radius \in 0 .. MaxRadius, fa \in MixedQueryFactions,
           same \in BOOLEAN :
          DoFindNearest(pos, radius, fa, same)

SpecMixed == Init /\ [][NextMixed]_vars

\* grid.Clear()
Clear ==
  /\ Apply(SpatialGrid_Clear(Grid))
  /\ UNCHANGED <<position, faction, valid>>
  /\ UNCHANGED gameplay

\* The grid with Clear among its calls.  call names the last Clear or
\* inserting call (createEntity, Update); a Remove leaves it, so that
\* call.op = "Clear" says: cleared, and nothing inserted since.
NextClear ==
  \/ \E e \in Entity, pos \in CallSpots, f \in EntityFactions \ {-1} :
       createEntity(e, pos, f) /\ call' = [NoCall EXCEPT !.op = "Insert"]
  \/ \E e \in Entity, p \in CallSpots :
       Move(e, p) /\ call' = [NoCall EXCEPT !.op = "Update"]
  \/ \E e \in Entity : Remove(e) /\ UNCHANGED call
  \/ Clear /\ call' = [NoCall EXCEPT !.op = "Clear"]

SpecClear == Init /\ [][NextClear]_vars

\* -------------------------------------------------------------- gameplay
\* Lengths are whole world units and times whole half seconds, so that every
\* comparison of the code is exact; units stand on one row of the world and
\* every direction is along an axis.  Speeds are world units per half second.

\* _targeting_interval (1.0f, in half seconds), and the radius of a
\* single-target impact
_targeting_interval == 2
ImpactRadius == 1

UnitTypes == {"Footman", "Archer", "Ballista", "Healer"}

\* config["units"][type]: the values spawn_unit reads
UnitConfig(type) ==
  CASE type = "Footman" ->
         [hp |-> 3, shield |-> 1, speed |-> 1, damage |-> 2, range |-> 2, attack_cooldown |-> 2]
    [] type = "Archer" ->
         [hp |-> 2, shield |-> 0, speed |-> 1, damage |-> 2, range |-> 3, attack_cooldown |-> 2,
          projectile_speed |-> 1]
    [] type = "Ballista" ->
         [hp |-> 2, shield |-> 2, speed |-> 1, damage |-> 3, range |-> 3, attack_cooldown |-> 2,
          projectile_speed |-> 1, damage_radius |-> 1]
    [] type = "Healer" ->
         [hp |-> 2, shield |-> 4, speed |-> 1, heal_amount |-> 2, heal_range |-> 2,
          heal_cooldown |-> 2, follow_range |-> 1, follow_search_radius |-> 3,
          follow_target_cooldown |-> 2]

Sign(v) == IF v > 0 THEN 1 ELSE IF v < 0 THEN -1 ELSE 0

\* Vec2::normalize of a vector along an axis
normalize(v) ==
  CASE v.x = 0 -> Vec2(0, Sign(v.y))
    [] v.y = 0 -> Vec2(Sign(v.x), 0)

\* Vec2::direction_to
direction_to(from, to) == normalize(Vec2(to.x - from.x, to.y - from.y))

\* Vec2::dot
dot(a, b) == a.x * b.x + a.y * b.y

isZero(v) == v.x = 0 /\ v.y = 0

\* Health::Damage, as the damage code stands where the older copy of
\* update_melee_combat has it inline
Health_Damage(h, damage) ==
  LET actual_damage == damage - h.shield
  IN IF actual_damage > 0 THEN [h EXCEPT !.current = @ - actual_damage] ELSE h

\* the damage code of an area impact without its test of actual_damage
ApplyDamage_unclamped(h, damage) == [h EXCEPT !.current = @ - (damage - h.shield)]

\* the damage code written out in update_projectiles for an area impact
ApplyDamage(h, damage) ==
  LET actual_damage == damage - h.shield
  IN IF actual_damage > 0 THEN [h EXCEPT !.current = @ - actual_damage] ELSE h

\* Health::IsFullHealth and Health::Heal, as the heal code stands where the
\* older copy of update_healer has it inline
Health_IsFullHealth(h) == h.current >= h.max

\* the heal code without its test against max
Health_Heal_unclamped(h, amount) == [h EXCEPT !.current = @ + amount]

Health_Heal(h, amount) == [h EXCEPT !.current = Min(h.max, @ + amount)]

\* the registry and the grid as one value, handed from stage to stage
World ==
  [position |-> position, faction |-> faction, node |-> node, cells |-> cells,
   entity_count |-> entity_count, valid |-> valid, health |-> health,
   movement |-> movement, direct_damage |-> direct_damage, emitter |-> emitter,
   attack_target |-> attack_target, attacking |-> attacking, healer |-> healer,
   follow |-> follow, projectile |-> projectile, _targeting_timer |-> _targeting_timer,
   full |-> FALSE]

GridOf(W) == [cells |-> W.cells, entity_count |-> W.entity_count, node |-> W.node]

WithGrid(W, S) == [W EXCEPT !.cells = S.cells, !.entity_count = S.entity_count, !.node = S.node]

\* the state left by a stage or a call becomes the next state
Become(W) ==
  /\ position' = W.position
  /\ faction' = W.faction
  /\ node' = W.node
  /\ cells' = W.cells
  /\ entity_count' = W.entity_count
  /\ valid' = W.valid
  /\ health' = W.health
  /\ movement' = W.movement
  /\ direct_damage' = W.direct_damage
  /\ emitter' = W.emitter
  /\ attack_target' = W.attack_target
  /\ attacking' = W.attacking
  /\ healer' = W.healer
  /\ follow' = W.follow
  /\ projectile' = W.projectile
  /\ _targeting_timer' = W._targeting_timer

\* UnitFactory::spawn_unit: the components of a new unit of the given type
spawn_unit(W, entity, type, f, pos) ==
  LET c == UnitConfig(type)
      W1 == [W EXCEPT !.valid = @ \cup {entity},
                      !.position[entity] = pos,
                      !.faction[entity] = [has |-> TRUE, id |-> f],
                      !.movement[entity] = [has |-> TRUE, velocity |-> Vec2(0, 0),
                                            target |-> pos, speed |-> c.speed],
                      !.health[entity] = [has |-> TRUE, current |-> c.hp, max |-> c.hp,
                                          shield |-> c.shield]]
  IN CASE type = "Footman" ->
            [W1 EXCEPT !.direct_damage[entity] =
                         [has |-> TRUE, damage |-> c.damage, range |-> c.range,
                          cooldown |-> c.attack_cooldown, timer |-> 0],
                       !.attack_target[entity] = [has |-> TRUE, target |-> NULL]]
       [] type = "Archer" ->
            [W1 EXCEPT !.emitter[entity] =
                         [has |-> TRUE, damage |-> c.damage, range |-> c.range,
                          cooldown |-> c.attack_cooldown, timer |-> 0,
                          projectile_speed |-> c.projectile_speed, projectile_type |-> 0,
                          aoe_radius |-> 0],
                       !.attack_target[entity] = [has |-> TRUE, target |-> NULL]]
       [] type = "Ballista" ->
            [W1 EXCEPT !.emitter[entity] =
                         [has |-> TRUE, damage |-> c.damage, range |-> c.range,
                          cooldown |-> c.attack_cooldown, timer |-> 0,
                          projectile_speed |-> c.projectile_speed, projectile_type |-> 1,
                          aoe_radius |-> c.damage_radius],
                       !.attack_target[entity] = [has |-> TRUE, target |-> NULL]]
       [] type = "Healer" ->
            [W1 EXCEPT !.healer[entity] =
                         [has |-> TRUE, heal_amount |-> c.heal_amount, range |-> c.heal_range,
                          cooldown |-> c.heal_cooldown, timer |-> 0],
                       !.follow[entity] =
                         [has |-> TRUE, target |-> NULL, speed |-> c.speed,
                          followRange |-> c.follow_range,
                          searchRadius |-> c.follow_search_radius,
                          targetCooldown |-> c.follow_target_cooldown, targetTimer |-> 0],
                       !.movement[entity] = NoMovement]

\* World::SpawnUnit: nothing outside the world; else spawn_unit, then
\* Insert(entity, pos, faction).  registry.create() hands out the lowest
\* identifier not in use.
World_SpawnUnit(W, type, f, pos) ==
  IF pos.x < 0 \/ pos.x >= _width \/ pos.y < 0 \/ pos.y >= _height THEN W
  ELSE LET entity == CHOOSE e \in Entity \ W.valid : \A o \in Entity \ W.valid : e <= o
           W1 == spawn_unit(W, entity, type, f, pos)
       IN WithGrid(W1, SpatialGrid_Insert(GridOf(W1), W1.faction[entity], entity, pos, f))

\* GameplaySystem::processMovement: [moved, movement, pos]
processMovement(m, pos, d) ==
  IF isZero(m.velocity) THEN [moved |-> FALSE, movement |-> m, pos |-> pos]
  ELSE LET old_pos == pos
           new_pos == Vec2(pos.x + m.velocity.x * d, pos.y + m.velocity.y * d)
           to_target == Vec2(m.target.x - old_pos.x, m.target.y - old_pos.y)
           \* dist < 0.5f, both sides squared
           arrived == 4 * distance_squared(new_pos, m.target) < 1
       IN IF arrived \/ dot(to_target, m.velocity) < 0
          THEN [moved |-> TRUE, pos |-> new_pos,
                movement |-> [m EXCEPT !.velocity = Vec2(0, 0), !.target = new_pos]]
          ELSE [moved |-> TRUE, movement |-> m, pos |-> new_pos]

\* the first loop of update_movement over a view that does not exclude
\* StateAttackingTag
MoveIndexed_engaged(W, entity, d) ==
  IF ~(entity \in W.valid /\ W.movement[entity].has /\ W.node[entity].has)
  THEN W
  ELSE LET old_pos == W.position[entity]
           r == processMovement(W.movement[entity], old_pos, d)
           W1 == [W EXCEPT !.movement[entity] = r.movement, !.position[entity] = r.pos]
       IN IF r.moved
          THEN WithGrid(W1, SpatialGrid_Update(GridOf(W1), W1.faction[entity], entity,
                                               old_pos, r.pos))
          ELSE W1

\* the body of the first loop of update_movement for one entity
MoveIndexed(W, entity, d) ==
  IF ~(entity \in W.valid /\ W.movement[entity].has /\ W.node[entity].has
       /\ entity \notin W.attacking)
  THEN W
  ELSE LET old_pos == W.position[entity]
           r == processMovement(W.movement[entity], old_pos, d)
           W1 == [W EXCEPT !.movement[entity] = r.movement, !.position[entity] = r.pos]
       IN IF r.moved
          THEN WithGrid(W1, SpatialGrid_Update(GridOf(W1), W1.faction[entity], entity,
                                               old_pos, r.pos))
          ELSE W1

\* the body of the second loop of update_movement for an entity without a
\* SpatialNode that is not a projectile
MoveUnindexed(W, entity, d) ==
  IF ~(entity \in W.valid /\ W.movement[entity].has /\ ~W.node[entity].has
       /\ entity \notin W.attacking)
  THEN W
  ELSE LET r == processMovement(W.movement[entity], W.position[entity], d)
       IN [W EXCEPT !.movement[entity] = r.movement, !.position[entity] = r.pos]

\* the body of the second loop of update_movement for a projectile
MoveProjectile(W, shot, d) ==
  LET pr == W.projectile[shot] IN
  IF ~pr.valid THEN W
  ELSE LET r == processMovement([velocity |-> pr.velocity, target |-> pr.target],
                                pr.position, d)
       IN [W EXCEPT !.projectile[shot] =
                      [pr EXCEPT !.velocity = r.movement.velocity,
                                 !.target = r.movement.target, !.position = r.pos]]

\* a loop over a view: Body applied to the entities of ord in turn
RECURSIVE ForEach(_, _, _, _)
ForEach(Body(_, _, _), W, ord, d) ==
  IF ord = <<>> THEN W ELSE ForEach(Body, Body(W, Head(ord), d), Tail(ord), d)

\* the projectile identifiers, in order
ShotOrder == [i \in 1 .. MaxShots |-> i]

\* GameplaySystem::update_movement
update_movement(W, ord, d) ==
  ForEach(MoveProjectile, ForEach(MoveUnindexed, ForEach(MoveIndexed, W, ord, d), ord, d),
          ShotOrder, d)

\* the nearest living ally among the entities cs handed to the callback of
\* update_follow, starting from bestTarget at squared distance bestDistSq
RECURSIVE BestAlly(_, _, _, _, _)
BestAlly(W, entity, cs, bestTarget, bestDistSq) ==
  IF cs = <<>> THEN bestTarget
  ELSE LET ally == Head(cs)
           dist_sq == distance_squared(W.position[entity], W.position[ally])
       IN IF ally # entity /\ ally \in W.valid /\ W.health[ally].has
             /\ W.health[ally].current > 0 /\ dist_sq < bestDistSq
          THEN BestAlly(W, entity, Tail(cs), ally, dist_sq)
          ELSE BestAlly(W, entity, Tail(cs), bestTarget, bestDistSq)

\* the body of the loop of update_follow for one entity
FollowOne(W, entity, d) ==
  IF ~(entity \in W.valid /\ W.follow[entity].has /\ W.faction[entity].has
       /\ W.node[entity].has)
  THEN W
  ELSE
    LET f0 == [W.follow[entity] EXCEPT !.targetTimer = @ + d]
        pos == W.position[entity]
        needNewTarget ==
          \/ f0.target = NULL
          \/ f0.target \notin W.valid
          \/ ~W.health[f0.target].has
          \/ W.health[f0.target].current <= 0
        f1 == IF needNewTarget /\ f0.targetTimer >= f0.targetCooldown
              THEN [f0 EXCEPT !.targetTimer = 0,
                              !.target =
                                BestAlly(W, entity,
                                         QueryRadius(GridOf(W), W.valid, W.position, pos,
                                                     f0.searchRadius, W.faction[entity].id, TRUE),
                                         NULL, f0.searchRadius * f0.searchRadius)]
              ELSE f0
        W1 == [W EXCEPT !.follow[entity] = f1]
    IN IF f1.target # NULL /\ f1.target \in W.valid
       THEN LET targetPos == W.position[f1.target]
            IN IF distance_squared(pos, targetPos) > f1.followRange * f1.followRange
               THEN LET direction == direction_to(pos, targetPos)
                        moved == Vec2(pos.x + direction.x * f1.speed * d,
                                      pos.y + direction.y * f1.speed * d)
                        stopDirection == direction_to(targetPos, moved)
                        new_pos ==
                          IF distance_squared(moved, targetPos) < f1.followRange * f1.followRange
                          THEN Vec2(targetPos.x + stopDirection.x * f1.followRange,
                                    targetPos.y + stopDirection.y * f1.followRange)
                          ELSE moved
                        W2 == [W1 EXCEPT !.position[entity] = new_pos]
                    IN WithGrid(W2, SpatialGrid_Update(GridOf(W2), W2.faction[entity], entity,
                                                       pos, new_pos))
               ELSE W1
       ELSE W1

\* GameplaySystem::update_follow
update_follow(W, ord, d) == ForEach(FollowOne, W, ord, d)

\* the body of a loop of update_targeting that never takes the
\* StateAttackingTag away
Retarget_keepTag(W, entity, range) ==
  LET t0 == W.attack_target[entity].target
      pos == W.position[entity]
      need_new_target ==
        \/ t0 = NULL
        \/ t0 \notin W.valid
        \/ ~W.health[t0].has
        \/ W.health[t0].current <= 0
        \/ distance_squared(pos, W.position[t0]) > range * range
      target == IF need_new_target
                THEN FindNearest(GridOf(W), W.valid, W.position, pos, range,
                                 W.faction[entity].id, FALSE)
                ELSE t0
  IN [W EXCEPT !.attack_target[entity].target = target,
               !.attacking = IF target # NULL THEN @ \cup {entity} ELSE @]

\* the loop body of update_targeting that looks for a new target only when
\* the reference is null or names an existing entity that is dead or too far
Retarget_trustReference(W, entity, range) ==
  LET t0 == W.attack_target[entity].target
      pos == W.position[entity]
      need_new_target ==
        \/ t0 = NULL
        \/ /\ t0 \in W.valid
           /\ \/ ~W.health[t0].has
              \/ W.health[t0].current <= 0
              \/ distance_squared(pos, W.position[t0]) > range * range
      target == IF need_new_target
                THEN FindNearest(GridOf(W), W.valid, W.position, pos, range,
                                 W.faction[entity].id, FALSE)
                ELSE t0
  IN [W EXCEPT !.attack_target[entity].target = target,
               !.attacking = IF target # NULL THEN @ \cup {entity} ELSE @ \ {entity}]

\* the body of either loop of update_targeting for one entity whose weapon
\* reaches range: keep a living target in range, else take the nearest
\* entity of another faction; StateAttackingTag follows the target
Retarget(W, entity, range) ==
  LET t0 == W.attack_target[entity].target
      pos == W.position[entity]
      gone == t0 = NULL \/ t0 \notin W.valid
      need_new_target ==
        \/ gone
        \/ ~W.health[t0].has
        \/ W.health[t0].current <= 0
        \/ distance_squared(pos, W.position[t0]) > range * range
      target == IF need_new_target
                THEN FindNearest(GridOf(W), W.valid, W.position, pos, range,
                                 W.faction[entity].id, FALSE)
                ELSE t0
  IN [W EXCEPT !.attack_target[entity].target = target,
               !.attacking = IF target # NULL THEN @ \cup {entity} ELSE @ \ {entity}]

TargetMelee(W, entity, d) ==
  IF entity \in W.valid /\ W.attack_target[entity].has /\ W.faction[entity].has
     /\ W.direct_damage[entity].has
  THEN Retarget(W, entity, W.direct_damage[entity].range)
  ELSE W

TargetRanged(W, entity, d) ==
  IF entity \in W.valid /\ W.attack_target[entity].has /\ W.faction[entity].has
     /\ W.emitter[entity].has
  THEN Retarget(W, entity, W.emitter[entity].range)
  ELSE W

\* update_targeting without its test of _targeting_timer: a pass every tick
update_targeting_everyTick(W, ord, d) ==
  ForEach(TargetRanged, ForEach(TargetMelee, [W EXCEPT !._targeting_timer = 0], ord, d), ord, d)

\* GameplaySystem::update_targeting
update_targeting(W, ord, d) ==
  LET W1 == [W EXCEPT !._targeting_timer = @ + d] IN
  IF W1._targeting_timer < _targeting_interval THEN W1
  ELSE ForEach(TargetRanged,
               ForEach(TargetMelee, [W1 EXCEPT !._targeting_timer = 0], ord, d), ord, d)

\* the body of the loop of update_melee_combat for one entity
MeleeOne(W, entity, d) ==
  IF ~(entity \in W.valid /\ W.direct_damage[entity].has /\ W.attack_target[entity].has
       /\ entity \in W.attacking /\ W.faction[entity].has)
  THEN W
  ELSE LET dc == [W.direct_damage[entity] EXCEPT !.timer = @ + d]
           target == W.attack_target[entity].target
           W1 == [W EXCEPT !.direct_damage[entity] = dc]
       IN IF /\ dc.timer >= dc.cooldown
             /\ target # NULL
             /\ target \in W.valid
             /\ W.health[target].has
             /\ distance_squared(W.position[entity], W.position[target]) <= dc.range * dc.range
          THEN [W1 EXCEPT !.health[target] = Health_Damage(@, dc.damage),
                          !.direct_damage[entity].timer = 0]
          ELSE W1

\* GameplaySystem::update_melee_combat
update_melee_combat(W, ord, d) == ForEach(MeleeOne, W, ord, d)

\* the projectile identifiers registry.create() can hand out
FreeShots(W) == {s \in Shot : ~W.projectile[s].valid}

\* the body of the loop of update_ranged_combat for one entity; full is set
\* when a projectile is due and every projectile identifier is in use
RangedOne(W, entity, d) ==
  IF ~(entity \in W.valid /\ W.emitter[entity].has /\ W.attack_target[entity].has
       /\ entity \in W.attacking /\ W.faction[entity].has)
  THEN W
  ELSE LET em == [W.emitter[entity] EXCEPT !.timer = @ + d]
           target == W.attack_target[entity].target
           pos == W.position[entity]
           W1 == [W EXCEPT !.emitter[entity] = em]
       IN IF /\ em.timer >= em.cooldown
             /\ target # NULL
             /\ target \in W.valid
             /\ distance_squared(pos, W.position[target]) <= em.range * em.range
          THEN IF FreeShots(W) = {} THEN [W1 EXCEPT !.full = TRUE]
               ELSE LET shot == CHOOSE s \in FreeShots(W) : \A o \in FreeShots(W) : s <= o
                        target_pos == W.position[target]
                        dir == direction_to(pos, target_pos)
                    IN [W1 EXCEPT !.projectile[shot] =
                                    [valid |-> TRUE, position |-> pos,
                                     velocity |-> Vec2(dir.x * em.projectile_speed,
                                                       dir.y * em.projectile_speed),
                                     target |-> target_pos, damage |-> em.damage,
                                     faction |-> W.faction[entity].id,
                                     is_aoe |-> (em.projectile_type = 1),
                                     aoe_radius |-> em.aoe_radius,
                                     node |-> NoNode, aimed_at |-> target],
                                  !.emitter[entity].timer = 0]
          ELSE W1

\* GameplaySystem::update_ranged_combat
update_ranged_combat(W, ord, d) == ForEach(RangedOne, W, ord, d)

\* the callback of update_healer over the allies cs handed to it
RECURSIVE HealAll(_, _, _)
HealAll(H, cs, heal_amount) ==
  IF cs = <<>> THEN H
  ELSE LET ally == Head(cs)
       IN HealAll(IF H[ally].has /\ ~Health_IsFullHealth(H[ally])
                  THEN [H EXCEPT ![ally] = Health_Heal(@, heal_amount)] ELSE H,
                  Tail(cs), heal_amount)

\* the loop body of update_healer that resets the timer only when an ally
\* was healed
HealerOne_resetOnHeal(W, entity, d) ==
  IF ~(entity \in W.valid /\ W.healer[entity].has /\ W.faction[entity].has)
  THEN W
  ELSE LET h == [W.healer[entity] EXCEPT !.timer = @ + d]
           H == HealAll(W.health, QueryRadius(GridOf(W), W.valid, W.position,
                                              W.position[entity], h.range,
                                              W.faction[entity].id, TRUE),
                        h.heal_amount)
       IN IF h.timer >= h.cooldown
          THEN [W EXCEPT !.healer[entity] = IF H # W.health THEN [h EXCEPT !.timer = 0] ELSE h,
                         !.health = H]
          ELSE [W EXCEPT !.healer[entity] = h]

\* the body of the loop of update_healer for one entity
HealerOne(W, entity, d) ==
  IF ~(entity \in W.valid /\ W.healer[entity].has /\ W.faction[entity].has)
  THEN W
  ELSE LET h == [W.healer[entity] EXCEPT !.timer = @ + d]
       IN IF h.timer >= h.cooldown
          THEN [W EXCEPT !.healer[entity] = [h EXCEPT !.timer = 0],
                         !.health = HealAll(@, QueryRadius(GridOf(W), W.valid, W.position,
                                                           W.position[entity], h.range,
                                                           W.faction[entity].id, TRUE),
                                            h.heal_amount)]
          ELSE [W EXCEPT !.healer[entity] = h]

\* GameplaySystem::update_healer
update_healer(W, ord, d) == ForEach(HealerOne, W, ord, d)

\* an area impact that damages only the first entity handed to its callback
DamageAll_firstOnly(H, cs, damage) ==
  IF cs = <<>> \/ ~H[Head(cs)].has THEN H
  ELSE [H EXCEPT ![Head(cs)] = ApplyDamage(@, damage)]

\* the callback of an area impact over the entities cs handed to it
RECURSIVE DamageAll(_, _, _)
DamageAll(H, cs, damage) ==
  IF cs = <<>> THEN H
  ELSE LET enemy == Head(cs)
       IN DamageAll(IF H[enemy].has THEN [H EXCEPT ![enemy] = ApplyDamage(@, damage)] ELSE H,
                    Tail(cs), damage)

\* update_projectiles resolving a projectile whatever its velocity
Resolving_anyVelocity(W, shot) == W.projectile[shot].valid

\* a projectile has arrived: update_projectiles resolves it
Resolving(W, shot) == W.projectile[shot].valid /\ isZero(W.projectile[shot].velocity)

\* the body of the loop of update_projectiles for one projectile, without
\* its destruction
ResolveOne(W, shot, d) ==
  LET pr == W.projectile[shot] IN
  IF ~Resolving(W, shot) THEN W
  ELSE IF pr.is_aoe
       THEN [W EXCEPT !.health =
                        DamageAll(@, QueryRadius(GridOf(W), W.valid, W.position, pr.position,
                                                 pr.aoe_radius, pr.faction, FALSE),
                                  pr.damage)]
       ELSE LET target == FindNearest(GridOf(W), W.valid, W.position, pr.position,
                                      ImpactRadius, pr.faction, FALSE)
            IN IF target # NULL /\ target \in W.valid /\ W.health[target].has
               THEN [W EXCEPT !.health[target] = Health_Damage(@, pr.damage)]
               ELSE W

\* update_projectiles without registry.destroy of the resolved projectiles
update_projectiles_keepResolved(W, ord, d) == ForEach(ResolveOne, W, ord, d)

\* GameplaySystem::update_projectiles: resolve the projectiles that arrived,
\* then destroy them
update_projectiles(W, ord, d) ==
  LET W1 == ForEach(ResolveOne, W, ord, d)
  IN [W1 EXCEPT !.projectile =
                  [s \in Shot |-> IF Resolving(W, s) THEN NoProjectile ELSE W.projectile[s]]]

\* registry.destroy(entity): the identifier and every component go
Destroy(W, entity) ==
  [W EXCEPT !.valid = @ \ {entity},
            !.position[entity] = Vec2(0, 0),
            !.faction[entity] = NoFaction,
            !.node[entity] = NoNode,
            !.health[entity] = NoHealth,
            !.movement[entity] = NoMovement,
            !.direct_damage[entity] = NoDirectDamage,
            !.emitter[entity] = NoProjectileEmitter,
            !.attack_target[entity] = NoAttackTarget,
            !.attacking = @ \ {entity},
            !.healer[entity] = NoHealer,
            !.follow[entity] = NoFollow]

\* the entities update_death queues: Health.current <= 0 when it scans
Dying(W) == {e \in W.valid : W.health[e].has /\ W.health[e].current <= 0}

\* the scan of update_death without its call of SpatialGrid::Remove
DeathOne_keepIndexed(W, entity, d) == W

\* the body of the loop of update_death for one entity
DeathOne(W, entity, d) ==
  IF entity \in Dying(W) /\ W.node[entity].has
  THEN WithGrid(W, SpatialGrid_Remove(GridOf(W), entity))
  ELSE W

RECURSIVE DestroyAll(_, _)
DestroyAll(W, to_destroy) ==
  IF to_destroy = <<>> THEN W
  ELSE DestroyAll(Destroy(W, Head(to_destroy)), Tail(to_destroy))

\* GameplaySystem::update_death: the scan, then registry.destroy of the queue
update_death(W, ord, d) ==
  LET InQueue(e) == e \in Dying(W)
  IN DestroyAll(ForEach(DeathOne, W, ord, d), SelectSeq(ord, InQueue))

\* ------------------------------------------------------- the simulation
\* the orders in which a view may hand out the entities
Orders ==
  {ord \in [1 .. NumEntities -> Entity] : \A a, b \in 1 .. NumEntities : a # b => ord[a] # ord[b]}

\* update calling update_targeting first
Stages_targetingFirst ==
  <<"targeting", "movement", "follow", "melee", "ranged", "healer", "projectiles", "death">>

\* the stages of GameplaySystem::update, in the order of its calls
Stages ==
  <<"movement", "follow", "targeting", "melee", "ranged", "healer", "projectiles", "death">>

StageIndex(st) == CHOOSE i \in 1 .. Len(Stages) : Stages[i] = st

\* where update stands after the stage st
After(st) == IF StageIndex(st) = Len(Stages) THEN "idle" ELSE Stages[StageIndex(st) + 1]

\* the dt handed to update: 0 from a paused time controller, else a second
DtValues == {0, 2}

\* factions and positions units are spawned with: one row of the world
SpawnFactions == {0, MAX_FACTIONS - 1}
SpawnSpots == {Vec2(0, 1), Vec2(1, 1), Vec2(3, 1)}

\* World::SpawnUnit(type, f, pos), before the first update
SpawnUnit(type, f, pos) ==
  /\ stage = "idle"
  /\ ticks = 0
  /\ valid # Entity
  /\ Become(World_SpawnUnit(World, type, f, pos))
  /\ call' = [NoCall EXCEPT !.op = "SpawnUnit"]
  /\ UNCHANGED <<stage, dt, ticks>>

\* update without its dt == 0 test: the stages run whatever dt is
Update_noGuard(d) ==
  /\ stage = "idle"
  /\ ticks < MaxTicks
  /\ ticks' = ticks + 1
  /\ dt' = d
  /\ stage' = Stages[1]
  /\ call' = [NoCall EXCEPT !.op = "update", !.r = d]
  /\ UNCHANGED <<position, faction, node, cells, entity_count, valid,
                 health, movement, direct_damage, emitter, attack_target, attacking,
                 healer, follow, projectile, _targeting_timer>>

\* World::Update(d) enters GameplaySystem::update: with dt == 0 it returns
\* at once, else the first stage is due.  ticks counts the updates that run
\* their stages; call names the update and its dt.
Update(d) ==
  /\ stage = "idle"
  /\ ticks < MaxTicks
  /\ ticks' = IF d = 0 THEN ticks ELSE ticks + 1
  /\ dt' = d
  /\ stage' = IF d = 0 THEN "idle" ELSE Stages[1]
  /\ call' = [NoCall EXCEPT !.op = "update", !.r = d]
  /\ UNCHANGED <<position, faction, node, cells, entity_count, valid,
                 health, movement, direct_damage, emitter, attack_target, attacking,
                 healer, follow, projectile, _targeting_timer>>

\* a stage of update runs to its end and leaves W; a behaviour stops where
\* a projectile is due and no projectile identifier is left
RunStage(W) == ~W.full /\ Become(W)

Movement ==
  /\ stage = "movement"
  /\ \E ord \in Orders : RunStage(update_movement(World, ord, dt))
  /\ stage' = After("movement")
  /\ UNCHANGED <<call, dt, ticks>>

Follow ==
  /\ stage = "follow"
  /\ \E ord \in Orders : RunStage(update_follow(World, ord, dt))
  /\ stage' = After("follow")
  /\ UNCHANGED <<call, dt, ticks>>

Targeting ==
  /\ stage = "targeting"
  /\ \E ord \in Orders : RunStage(update_targeting(World, ord, dt))
  /\ stage' = After("targeting")
  /\ UNCHANGED <<call, dt, ticks>>

Melee ==
  /\ stage = "melee"
  /\ \E ord \in Orders : RunStage(update_melee_combat(World, ord, dt))
  /\ stage' = After("melee")
  /\ UNCHANGED <<call, dt, ticks>>

Ranged ==
  /\ stage = "ranged"
  /\ \E ord \in Orders : RunStage(update_ranged_combat(World, ord, dt))
  /\ stage' = After("ranged")
  /\ UNCHANGED <<call, dt, ticks>>

Heal ==
  /\ stage = "healer"
  /\ \E ord \in Orders : RunStage(update_healer(World, ord, dt))
  /\ stage' = After("healer")
  /\ UNCHANGED <<call, dt, ticks>>

Projectiles ==
  /\ stage = "projectiles"
  /\ RunStage(update_projectiles(World, ShotOrder, dt))
  /\ stage' = After("projectiles")
  /\ UNCHANGED <<call, dt, ticks>>

Death ==
  /\ stage = "death"
  /\ \E ord \in Orders : RunStage(update_death(World, ord, dt))
  /\ stage' = After("death")
  /\ UNCHANGED <<call, dt, ticks>>

\* the units of the battle scenario: melee units of both factions, the two
\* ranged types on opposite sides, a healer
GameUnits ==
  {<<"Footman", 0>>, <<"Footman", MAX_FACTIONS - 1>>, <<"Ballista", 0>>,
   <<"Archer", MAX_FACTIONS - 1>>, <<"Healer", MAX_FACTIONS - 1>>}

\* Units are spawned, then the world is updated tick after tick.
NextGame ==
  \/ \E u \in GameUnits, pos \in SpawnSpots : SpawnUnit(u[1], u[2], pos)
  \/ \E d \in DtValues : Update(d)
  \/ Movement
  \/ Follow
  \/ Targeting
  \/ Melee
  \/ Ranged
  \/ Heal
  \/ Projectiles
  \/ Death

SpecGame == Init /\ [][NextGame]_vars

\* Movement::MoveTo(from, to): the target, and the velocity toward it at the
\* unit's speed
Movement_MoveTo(m, from, to) ==
  LET dir == direction_to(from, to)
  IN [m EXCEPT !.target = to, !.velocity = Vec2(dir.x * m.speed, dir.y * m.speed)]

\* InputSystem::issue_move_command with one unit selected: the centre of the
\* bounding box is the unit's position, its offset is zero and its target is
\* the click
issue_move_command(W, entity, click_world_pos) ==
  IF entity \in W.valid /\ W.movement[entity].has
  THEN [W EXCEPT !.movement[entity] =
                   Movement_MoveTo(@, W.position[entity], click_world_pos)]
  ELSE W

\* one move command, given before the first update to a unit that has a
\* Movement while no unit is on the move
MoveCommand(entity, click) ==
  /\ stage = "idle"
  /\ ticks = 0
  /\ entity \in valid
  /\ movement[entity].has
  /\ \A e \in valid : isZero(movement[e].velocity)
  /\ Become(issue_move_command(World, entity, click))
  /\ call' = [NoCall EXCEPT !.op = "issue_move_command", !.e = entity, !.b = click]
  /\ UNCHANGED <<stage, dt, ticks>>

\* the units of the marching scenario, each type in one faction
MarchUnits == {<<"Footman", 0>>, <<"Healer", 0>>, <<"Archer", MAX_FACTIONS - 1>>}

\* frames of one second
MarchDts == {1, 2}

\* Units are spawned, one of them is sent to a point of the row, then the
\* world is updated tick after tick.
NextMarch ==
  \/ \E u \in MarchUnits, pos \in SpawnSpots : SpawnUnit(u[1], u[2], pos)
  \/ \E e \in Entity, click \in SpawnSpots : MoveCommand(e, click)
  \/ \E d \in MarchDts : Update(d)
  \/ Movement
  \/ Follow
  \/ Targeting
  \/ Melee
  \/ Ranged
  \/ Heal
  \/ Projectiles
  \/ Death

SpecMarch == Init /\ [][NextMarch]_vars

\* ------------------------------------------------------ save and restore
\* the identifier of projectile s among the entities of the registry
ShotEntity(s) == NumEntities + s

\* every identifier the registry hands out, units and projectiles
AllEntities == Entity \cup {ShotEntity(s) : s \in Shot}

\* the body of LoadGame's loop over view<Position> for a unit: Insert with
\* the default faction argument
LoadInsertUnit(W, entity, d) ==
  IF entity \notin W.valid THEN W
  ELSE WithGrid(W, SpatialGrid_Insert(GridOf(W), W.faction[entity], entity,
                                      W.position[entity], -1))

\* the loop body with the projectile's faction handed to Insert
LoadInsertShot_ownFaction(W, shot, d) ==
  IF ~W.projectile[shot].valid THEN W
  ELSE WithGrid(W, SpatialGrid_Insert(GridOf(W), NoFaction, ShotEntity(shot),
                                      W.projectile[shot].position,
                                      W.projectile[shot].faction))

\* the body of the same loop for a projectile, which has a Position and no
\* Faction component
LoadInsertShot(W, shot, d) ==
  IF ~W.projectile[shot].valid THEN W
  ELSE WithGrid(W, SpatialGrid_Insert(GridOf(W), NoFaction, ShotEntity(shot),
                                      W.projectile[shot].position, -1))

\* LoadGame without its call of SpatialGrid::Clear
World_LoadGame_noClear(W, ord) ==
  LET W0 == [W EXCEPT
               !.node = [e \in AllEntities |-> NoNode],
               !.follow = [e \in Entity |-> NoFollow],
               !.attack_target =
                  [e \in Entity |->
                     IF W.attack_target[e].has /\ W.attack_target[e].target \notin W.valid
                     THEN [W.attack_target[e] EXCEPT !.target = NULL]
                     ELSE W.attack_target[e]]]
      W1 == ForEach(LoadInsertShot, ForEach(LoadInsertUnit, W0, ord, 0), ShotOrder, 0)
  IN [W1 EXCEPT
        !.node = [e \in Entity |-> W1.node[e]],
        !.projectile = [s \in Shot |->
                          [W1.projectile[s] EXCEPT !.node = W1.node[ShotEntity(s)]]]]

\* World::LoadGame of a file World::SaveGame wrote from W: whatever the
\* registry and the grid held before goes with registry.clear() and Clear().
\* The registry is
\* cleared and the grid emptied; the components of the snapshot come back,
\* which leaves out SpatialNode and Follow; an AttackTarget whose entity the
\* loader does not know becomes null; then every entity with a Position is
\* handed to Insert, units in the order ord, and the SpatialNode an entity
\* got is its component from then on.
World_LoadGame(W, ord) ==
  LET W0 == [W EXCEPT
               !.node = [e \in AllEntities |-> NoNode],
               !.cells = [f \in Factions |-> [c \in 0 .. (NumCells - 1) |-> NULL]],
               !.entity_count = [f \in Factions |-> 0],
               !.follow = [e \in Entity |-> NoFollow],
               !.attack_target =
                  [e \in Entity |->
                     IF W.attack_target[e].has /\ W.attack_target[e].target \notin W.valid
                     THEN [W.attack_target[e] EXCEPT !.target = NULL]
                     ELSE W.attack_target[e]]]
      W1 == ForEach(LoadInsertShot, ForEach(LoadInsertUnit, W0, ord, 0), ShotOrder, 0)
  IN [W1 EXCEPT
        !.node = [e \in Entity |-> W1.node[e]],
        !.projectile = [s \in Shot |->
                          [W1.projectile[s] EXCEPT !.node = W1.node[ShotEntity(s)]]]]

\* the game is saved and the save loaded back, between two updates
LoadGame(ord) ==
  /\ stage = "idle"
  /\ valid # {}
  /\ call.op # "LoadGame"
  /\ Become(World_LoadGame(World, ord))
  /\ call' = [NoCall EXCEPT !.op = "LoadGame"]
  /\ UNCHANGED <<stage, dt, ticks>>

\* the world as SaveGame wrote it when only the first n units had been
\* spawned: SpawnUnit hands out the identifiers in order
SavedAfter(W, n) ==
  LET Later(e) == e \in W.valid /\ e > n
  IN DestroyAll(W, SelectSeq([i \in 1 .. NumEntities |-> i], Later))

\* before the first update: the game was saved when n units had been
\* spawned, more units were spawned, and now the save is loaded
LoadEarlier(n, ord) ==
  /\ stage = "idle"
  /\ ticks = 0
  /\ \E e \in valid : e > n
  /\ call.op # "LoadGame"
  /\ Become(World_LoadGame(SavedAfter(World, n), ord))
  /\ call' = [NoCall EXCEPT !.op = "LoadGame", !.r = n]
  /\ UNCHANGED <<stage, dt, ticks>>

\* the units of the restore scenario: those of the march and a unit whose
\* faction id is the first beyond the partitions
RestoreUnits == MarchUnits \cup {<<"Footman", MAX_FACTIONS>>}

\* Units are spawned, the world is updated tick after tick, and between two
\* updates the game may be saved and restored.
NextRestore ==
  \/ \E u \in RestoreUnits, pos \in SpawnSpots : SpawnUnit(u[1], u[2], pos)
  \/ \E ord \in Orders : LoadGame(ord)
  \/ \E n \in 0 .. (NumEntities - 1), ord \in Orders : LoadEarlier(n, ord)
  \/ Update(_targeting_interval)
  \/ Movement
  \/ Follow
  \/ Targeting
  \/ Melee
  \/ Ranged
  \/ Heal
  \/ Projectiles
  \/ Death

SpecRestore == Init /\ [][NextRestore]_vars

\* ------------------------------------------------------ an unending run
\* World::Update(d) with d > 0 in a run that goes on: ticks counts the first
\* MaxTicks updates and stays there
Tick(d) ==
  /\ stage = "idle"
  /\ d # 0
  /\ ticks' = IF ticks < MaxTicks THEN ticks + 1 ELSE ticks
  /\ dt' = d
  /\ stage' = Stages[1]
  /\ call' = [NoCall EXCEPT !.op = "update", !.r = d]
  /\ UNCHANGED <<position, faction, node, cells, entity_count, valid,
                 health, movement, direct_damage, emitter, attack_target, attacking,
                 healer, follow, projectile, _targeting_timer>>

\* the units of the shooting scenario: a ranged unit and its enemy
FlightUnits == {<<"Archer", MAX_FACTIONS - 1>>, <<"Footman", 0>>}

\* Units are spawned, then the world is updated without end.
NextFlight ==
  \/ \E u \in FlightUnits, pos \in SpawnSpots : SpawnUnit(u[1], u[2], pos)
  \/ \E d \in MarchDts : Tick(d)
  \/ Movement
  \/ Follow
  \/ Targeting
  \/ Melee
  \/ Ranged
  \/ Heal
  \/ Projectiles
  \/ Death

SpecFlight == Init /\ [][NextFlight]_vars

\* ------------------------------------------------- delete units in a rect
\* the cells FactionGrid::Query visits for the rectangle, in its order
RectCells(min, max) ==
  LET s == getCellCoords(min)
      e == getCellCoords(max)
      w == e.x - s.x + 1
      h == e.y - s.y + 1
  IN IF w <= 0 \/ h <= 0 THEN <<>>
     ELSE [k \in 1 .. (w * h) |-> (s.x + ((k - 1) % w)) + (s.y + ((k - 1) \div w)) * _cols]

\* steps a traversal is followed for: every jump follows a destruction
DeleteFuel == NumEntities * (NumEntities + 1)

\* the callback of the delete command on entity: Remove, then destroy
DeleteCallback(W, entity) ==
  IF entity \notin W.valid THEN W
  ELSE Destroy(IF W.node[entity].has THEN WithGrid(W, SpatialGrid_Remove(GridOf(W), entity))
               ELSE W,
               entity)

\* what curr = node.next can read once the callback has destroyed curr, node
\* being a reference into the storage of SpatialNode: the link the
\* component held (the slot is left as it was), or the link of another
\* entity's component (the storage moved its last component into the slot)
DanglingNext(W, W1, curr) ==
  {W.node[curr].next} \cup {W1.node[o].next : o \in {x \in W1.valid : W1.node[x].has}}

\* the while loop of FactionGrid::Query from curr on with the callback of
\* QueryRect around that of the delete command: the traversals it can end
\* in, each [W, out, stale] with the entities destroyed and whether a link
\* was read through a reference to a destroyed entity's node
RECURSIVE DeleteWalk(_, _, _, _, _)
DeleteWalk(T, curr, min, max, fuel) ==
  IF curr = NULL \/ fuel = 0 THEN {T}
  ELSE IF HasPosition(T.W.valid, curr) /\ InRect(T.W.position[curr], min, max)
       THEN LET W1 == DeleteCallback(T.W, curr)
                T1 == [W |-> W1, out |-> Append(T.out, curr), stale |-> TRUE]
            IN UNION {DeleteWalk(T1, n, min, max, fuel - 1) : n \in DanglingNext(T.W, W1, curr)}
       ELSE DeleteWalk(T, T.W.node[curr].next, min, max, fuel - 1)

\* the loops of FactionGrid::Query over the cells cs of partition f
RECURSIVE DeleteCells(_, _, _, _, _)
DeleteCells(Ts, f, cs, min, max) ==
  IF cs = <<>> THEN Ts
  ELSE DeleteCells(UNION {DeleteWalk(T, T.W.cells[f][Head(cs)], min, max, DeleteFuel) : T \in Ts},
                   f, Tail(cs), min, max)

\* the loop of SpatialGrid::QueryRect over the partitions from i on
RECURSIVE DeleteGrids(_, _, _, _)
DeleteGrids(Ts, i, min, max) ==
  IF i >= MAX_FACTIONS THEN Ts
  ELSE DeleteGrids(UNION {IF IsEmpty(GridOf(T.W), i) THEN {T}
                          ELSE DeleteCells({T}, i, RectCells(min, max), min, max) : T \in Ts},
                   i + 1, min, max)

\* InputSystem::update with the delete key down: QueryRect(rect_min,
\* rect_max) with the callback that removes and destroys
DeleteRect(min, max) ==
  \E T \in DeleteGrids({[W |-> World, out |-> <<>>, stale |-> FALSE]}, 0, min, max) :
    /\ Become(T.W)
    /\ call' = [NoCall EXCEPT !.op = "DeleteRect", !.a = min, !.b = max,
                              !.out = T.out, !.stale = T.stale]
    /\ UNCHANGED <<stage, dt, ticks>>

\* corners of the rectangles dragged
DragCorners ==
  {Vec2(0 - NegExtent, 0 - NegExtent), Vec2(1, 1), Vec2(2, 1), Vec2(MaxCoord, MaxCoord)}

\* A population is created and moved, then the units in one rectangle are
\* deleted.
NextDelete ==
  /\ call.op # "DeleteRect"
  /\ \/ \E e \in Entity, pos \in Spots, f \in EntityFactions :
          createEntity(e, pos, f) /\ UNCHANGED call
     \/ \E e \in Entity, p \in Spots : Move(e, p) /\ UNCHANGED call
     \/ \E min \in DragCorners, max \in DragCorners : DeleteRect(min, max)

SpecDelete == Init /\ [][NextDelete]_vars

\* ------------------------------------------------------------------ claims
\* how often entity e occurs in the sequence s
Count(s, e) == Cardinality({i \in DOMAIN s : s[i] = e})

Range(s) == {s[i] : i \in DOMAIN s}

\* C1: QueryRect hands the callback exactly once each indexed entity whose
\* Position satisfies min.x <= x <= max.x and min.y <= y <= max.y, and no
\* other entity, whatever cells the rectangle spans; so a zero-width or
\* zero-height rectangle returns the entities lying on it and an inverted
\* rectangle returns nothing.
C1_QueryRectExact ==
  call.op = "QueryRect" =>
    \A e \in Entity :
      Count(call.out, e) =
        IF /\ Indexed(e)
           /\ call.a.x <= position[e].x /\ position[e].x <= call.b.x
           /\ call.a.y <= position[e].y /\ position[e].y <= call.b.y
        THEN 1 ELSE 0

\* a rectangle spanning several cells returned two entities, one of them at a
\* position outside the world, and left out an entity of a cell it covers
C1_Witness ==
  /\ call.op = "QueryRect"
  /\ getCellIndex(call.a) # getCellIndex(call.b)
  /\ Len(call.out) >= 2
  /\ \E e \in Range(call.out) : position[e].x < 0 \/ position[e].x >= _width
  /\ \E e \in Entity \ Range(call.out) :
       /\ Indexed(e)
       /\ getCellCoords(call.a).x <= getCellCoords(position[e]).x
       /\ getCellCoords(position[e]).x <= getCellCoords(call.b).x
       /\ getCellCoords(call.a).y <= getCellCoords(position[e]).y
       /\ getCellCoords(position[e]).y <= getCellCoords(call.b).y

\* squared distance of entity e to the point of the last query
CallDistSq(e) ==
  (position[e].x - call.a.x) * (position[e].x - call.a.x)
    + (position[e].y - call.a.y) * (position[e].y - call.a.y)

\* entity e passes the faction filter of the last query
CallPasses(e) ==
  /\ faction[e].has
  /\ \/ call.f = -1
     \/ call.same /\ faction[e].id = call.f
     \/ ~call.same /\ faction[e].id # call.f

\* C2: QueryRadius(pos, r) without a faction filter hands the callback exactly
\* once each indexed, faction-carrying entity whose squared distance to pos
\* is <= r*r (distance exactly r included), and no other entity.
C2_QueryRadiusExact ==
  (call.op = "QueryRadius" /\ call.f = -1) =>
    \A e \in Entity :
      Count(call.out, e) =
        IF Indexed(e) /\ faction[e].has /\ CallDistSq(e) <= call.r * call.r
        THEN 1 ELSE 0

\* an unfiltered radius query returned an entity exactly at distance r > 0 and
\* left out an indexed entity farther away
C2_Witness ==
  /\ call.op = "QueryRadius" /\ call.f = -1 /\ call.r > 0
  /\ \E e \in Range(call.out) : CallDistSq(e) = call.r * call.r
  /\ \E e \in Entity \ Range(call.out) : Indexed(e)

\* C3: with a faction argument f in [0, 8), QueryRadius and FindNearest
\* consider with same_faction = true only the in-range entities of faction f,
\* with same_faction = false exactly the in-range entities of another
\* faction; with f = -1 every in-range entity whatever its faction.
C3_FactionFilter ==
  /\ call.op = "QueryRadius" =>
       Range(call.out) =
         {e \in Entity : Indexed(e) /\ CallPasses(e) /\ CallDistSq(e) <= call.r * call.r}
  /\ call.op = "FindNearest" =>
       /\ call.ret # NULL => CallPasses(call.ret)
       /\ (\E e \in Entity : Indexed(e) /\ CallPasses(e) /\ CallDistSq(e) < call.r * call.r)
            => call.ret # NULL

\* a query for the other factions (same_faction = false, f = 0) returned an
\* entity while an entity of faction 0 was in range as well
C3_Witness ==
  /\ call.op = "QueryRadius" /\ call.f = 0 /\ ~call.same
  /\ call.out # <<>>
  /\ \E e \in Entity :
       Indexed(e) /\ faction[e].id = 0 /\ CallDistSq(e) <= call.r * call.r

\* C4: FindNearest returns the null entity exactly when no indexed entity
\* passing the faction filter lies strictly closer than radius; otherwise it
\* returns such an entity at minimal distance.
C4_FindNearestMinimal ==
  call.op = "FindNearest" =>
    LET Cands == {e \in Entity :
                    Indexed(e) /\ CallPasses(e) /\ CallDistSq(e) < call.r * call.r}
    IN /\ (call.ret = NULL) <=> (Cands = {})
       /\ call.ret # NULL =>
            /\ call.ret \in Cands
            /\ \A c \in Cands : CallDistSq(call.ret) <= CallDistSq(c)

\* FindNearest chose among two candidates at different distances
C4_Witness ==
  /\ call.op = "FindNearest" /\ call.ret # NULL
  /\ \E c \in Entity :
       /\ c # call.ret /\ Indexed(c) /\ CallPasses(c)
       /\ CallDistSq(c) < call.r * call.r
       /\ CallDistSq(call.ret) < CallDistSq(c)

\* C5: an indexed entity exactly at distance r from the query point is never
\* returned by FindNearest(pos, r) and is always handed to the callback by
\* QueryRadius(pos, r) when it passes the faction filter; with r = 0 this is
\* an entity sitting at pos.
C5_BoundaryAsymmetry ==
  /\ call.op = "FindNearest" =>
       (call.ret = NULL \/ CallDistSq(call.ret) # call.r * call.r)
  /\ call.op = "QueryRadius" =>
       \A e \in Entity :
         (Indexed(e) /\ CallPasses(e) /\ CallDistSq(e) = call.r * call.r)
           => e \in Range(call.out)

\* FindNearest with radius 0 returned null although an entity sits at pos
C5_Witness ==
  /\ call.op = "FindNearest" /\ call.r = 0 /\ call.f = -1
  /\ call.ret = NULL
  /\ \E e \in Entity : Indexed(e) /\ CallDistSq(e) = 0

\* the entities of bucket c of partition f, in list order
Bucket(f, c) == Walk(node, cells[f][c], WalkFuel)

\* every bucket's list
Buckets == [f \in Factions |-> [c \in 0 .. (NumCells - 1) |-> Bucket(f, c)]]

\* the sequence s without entity e
Without(s, e) ==
  LET Other(x) == x # e IN SelectSeq(s, Other)

\* the corners of a rectangle that covers every cell
LowCorner == Vec2(0 - NegExtent, 0 - NegExtent)
HighCorner == Vec2(MaxCoord, MaxCoord)

\* C6: after any sequence of Insert, Remove and Update calls, Insert on an
\* indexed entity included, every entity is chained in at most one
\* (faction, cell) bucket.
C6_AtMostOneBucket ==
  \A e \in Entity :
    Cardinality({fc \in Factions \X (0 .. (NumCells - 1)) :
                   e \in Range(Bucket(fc[1], fc[2]))}) <= 1

\* C7: for an entity e that is not indexed, Insert(e, p) followed at once by
\* Remove(e) leaves every bucket head, every partition's count and the
\* Spatial Node of every other entity as they were before the Insert.
C7_InsertRemoveRestores ==
  [][(call'.op = "Insert" /\ ~call'.was) =>
       LET R == SpatialGrid_Remove(Grid', call'.e)
       IN /\ R.cells = cells
          /\ R.entity_count = entity_count
          /\ \A o \in Entity \ {call'.e} : R.node[o] = node[o]]_vars

\* an entity that was not indexed has been inserted in front of another one
C7_Witness ==
  /\ call.op = "Insert" /\ ~call.was
  /\ Indexed(call.e)
  /\ cells[node[call.e].faction][node[call.e].cell_index] = call.e
  /\ node[call.e].next # NULL

\* C8: an indexed entity moved from A to B with cell(A) # cell(B) and
\* Update(e, A, B): afterwards its cell_index is cell(B), a query covering B
\* returns it, and the buckets of cell(A), all a query covering only
\* cell(A) visits, do not hold it.
C8_UpdateCrossesCells ==
  [][(call'.op = "Update" /\ call'.was /\ call'.crossed) =>
       LET e == call'.e
           A == position[e]
           B == position'[e]
       IN /\ node'[e].cell_index = getCellIndex(B)
          /\ Count(QueryRect(Grid', valid', position', B, B), e) = 1
          /\ e \notin Range(Candidates(Grid', GridsFrom(Grid', 0, -1), A, A))
          /\ e \notin Range(QueryRect(Grid', valid', position', A, A))]_vars

\* an indexed entity has crossed into a bucket that held another entity
C8_Witness ==
  /\ call.op = "Update" /\ call.was /\ call.crossed
  /\ Indexed(call.e)
  /\ node[call.e].next # NULL

\* C9 as stated: Update(e, old, new) with old and new in the same cell never
\* changes any bucket's membership or list order, for every entity e.
C9_UpdateSameCellAnyEntity ==
  [][(call'.op = "Update" /\ ~call'.crossed) => Buckets' = Buckets]_vars

\* C9, amended: for every indexed entity e, Update(e, old, new) with old and
\* new in the same cell changes no bucket's membership or list order and no
\* Spatial Node.
C9_UpdateSameCellIndexed ==
  [][(call'.op = "Update" /\ call'.was /\ ~call'.crossed) =>
       (Buckets' = Buckets /\ node' = node /\ entity_count' = entity_count)]_vars

\* an indexed entity that is not the head of its bucket was updated within
\* its cell
C9_Witness ==
  /\ call.op = "Update" /\ call.was /\ ~call.crossed
  /\ Indexed(call.e)
  /\ node[call.e].prev # NULL

\* C10: Remove(e) on an indexed entity sets its cell_index to -1, leaves it
\* in no bucket, so that no query returns it, and leaves every bucket's
\* other entities in their order; Remove(e) on an entity without Spatial
\* Node or not indexed changes nothing; a second Remove(e) changes nothing.
C10_RemoveUnlinks ==
  [][call'.op = "Remove" =>
       LET e == call'.e IN
       /\ call'.was =>
            /\ node'[e].cell_index = -1
            /\ \A f \in Factions, c \in 0 .. (NumCells - 1) :
                 Bucket(f, c)' = Without(Bucket(f, c), e)
            /\ e \notin Range(QueryRect(Grid', valid', position', LowCorner, HighCorner))
       /\ ~call'.was =>
            (cells' = cells /\ node' = node /\ entity_count' = entity_count)
       /\ SpatialGrid_Remove(Grid', e) = Grid']_vars

\* an entity has been removed from between two others: its stale links still
\* name the predecessor and the successor that are now linked to each other
C10_Witness ==
  /\ call.op = "Remove" /\ call.was
  /\ ~Indexed(call.e)
  /\ node[call.e].prev # NULL /\ node[call.e].next # NULL
  /\ node[node[call.e].prev].next = node[call.e].next

\* the faction Insert would use is missing or outside [0, MAX_FACTIONS)
Unusable(fac, arg) ==
  \/ arg = -1 /\ ~fac.has
  \/ arg = -1 /\ fac.has /\ (fac.id < 0 \/ fac.id >= MAX_FACTIONS)
  \/ arg # -1 /\ (arg < 0 \/ arg >= MAX_FACTIONS)

C12_InsertIndexesWithoutFaction ==
  [][(call'.op = "Insert" /\ call'.f = -1 /\ ~faction'[call'.e].has) =>
       /\ node'[call'.e].has
       /\ node'[call'.e].cell_index >= 0
       /\ call'.e \in Range(QueryRect(Grid', valid', position',
                                      position'[call'.e], position'[call'.e]))]_vars

C14_OutOfRangeQueryEmpty ==
  (Answered /\ call.f >= MAX_FACTIONS) => (call.out = <<>> /\ call.ret = NULL)

\* C15: after Clear() every partition is empty, so that every QueryRect,
\* QueryRadius and FindNearest issued before a new Insert returns nothing,
\* and a second Clear() leaves the grid as the first left it.
C15_ClearEmpties ==
  call.op = "Clear" =>
    /\ \A min \in Lattice, max \in Lattice :
         QueryRect(Grid, valid, position, min, max) = <<>>
    /\ \A pos \in Spots, radius \in 0 .. MaxRadius, fa \in QueryFactions, same \in BOOLEAN :
         /\ QueryRadius(Grid, valid, position, pos, radius, fa, same) = <<>>
         /\ FindNearest(Grid, valid, position, pos, radius, fa, same) = NULL
    /\ SpatialGrid_Clear(SpatialGrid_Clear(Grid)) = SpatialGrid_Clear(Grid)

\* the range of the weapon update_targeting searches with for entity e
WeaponRange(e) == IF direct_damage[e].has THEN direct_damage[e].range ELSE emitter[e].range

\* the stage the claimed pipeline runs after st
C16_Successor(st) ==
  CASE st = "idle" -> "movement"
    [] st = "movement" -> "follow"
    [] st = "follow" -> "targeting"
    [] st = "targeting" -> "melee"
    [] st = "melee" -> "ranged"
    [] st = "ranged" -> "healer"
    [] st = "healer" -> "projectiles"
    [] st = "projectiles" -> "death"
    [] st = "death" -> "idle"

\* C16: an update with dt > 0 runs Movement, Follow, Targeting, Melee, Ranged,
\* Healer, Projectiles, Death in this order, one whole stage at a time and
\* each once; the Targeting stage moves nothing, and a target it newly sets
\* is the nearest hostile of the positions and the index as Movement and
\* Follow of the same update left them.
C16_StagesInOrder ==
  [][/\ stage' # stage => stage' = C16_Successor(stage)
     /\ (stage = "idle" /\ call'.op = "update" /\ call'.r > 0)
          => (stage' = "movement" /\ dt' = call'.r)
     /\ stage # "idle" => (stage' # stage /\ dt' = dt /\ dt > 0 /\ ticks' = ticks)
     /\ stage = "targeting"
          => /\ UNCHANGED <<position, node, cells, entity_count, valid, health>>
             /\ \A e \in valid :
                  (attack_target[e].has /\ attack_target'[e].target # attack_target[e].target)
                    => attack_target'[e].target =
                         FindNearest(Grid, valid, position, position[e], WeaponRange(e),
                                     faction[e].id, FALSE)]_vars

\* in the first update a follower went from x = 1 to its ally at x = 3, and
\* the Targeting stage of that update gave no target to the hostile unit at
\* x = 0, whose weapon reaches x = 1 and not x = 3
C16_Witness ==
  /\ ticks = 1
  /\ stage = "melee"
  /\ \E h \in valid, f \in valid :
       /\ follow[h].has
       /\ position[h] = Vec2(3, 1)
       /\ follow[h].target # NULL
       /\ position[follow[h].target] = Vec2(3, 1)
       /\ direct_damage[f].has
       /\ position[f] = Vec2(0, 1)
       /\ faction[f].id # faction[h].id
       /\ attack_target[f].target = NULL
       /\ FindNearest(Grid, valid, [position EXCEPT ![h] = Vec2(1, 1)], position[f],
                      WeaponRange(f), faction[f].id, FALSE) = h

\* C17: an update with dt == 0 returns with every Position, Faction and
\* SpatialNode, every bucket and count, every component and timer and the
\* sets of existing entities and projectiles as they were; no stage runs.
C17_ZeroDtChangesNothing ==
  [][(stage = "idle" /\ call'.op = "update" /\ call'.r = 0)
       => /\ stage' = "idle"
          /\ UNCHANGED <<position, faction, node, cells, entity_count, valid,
                         health, movement, direct_damage, emitter, attack_target,
                         attacking, healer, follow, projectile, _targeting_timer>>]_vars

\* an update with dt == 0 has returned while a unit was attacking a living
\* target and a projectile was in flight
C17_Witness ==
  /\ stage = "idle"
  /\ call.op = "update"
  /\ call.r = 0
  /\ dt = 0
  /\ ticks >= 1
  /\ \E e \in attacking : attack_target[e].target \in valid
  /\ \E s \in Shot : projectile[s].valid /\ ~isZero(projectile[s].velocity)

\* the sum of F over the set S
RECURSIVE Total(_, _)
Total(F(_), S) ==
  IF S = {} THEN 0
  ELSE LET x == CHOOSE y \in S : TRUE IN F(x) + Total(F, S \ {x})

\* in the Melee stage that is due, attacker a hits e: a carries the attacking
\* tag, its timer reaches the cooldown, e is its target and within range
MeleeHits(a, e) ==
  /\ a \in valid
  /\ direct_damage[a].has
  /\ attack_target[a].has
  /\ a \in attacking
  /\ direct_damage[a].timer + dt >= direct_damage[a].cooldown
  /\ attack_target[a].target = e
  /\ distance_squared(position[a], position[e]) <= direct_damage[a].range * direct_damage[a].range

\* how often the projectile s, resolving in the Projectiles stage that is
\* due, applies its damage to e
ShotHits(s, e) ==
  IF ~(projectile[s].valid /\ isZero(projectile[s].velocity)) THEN 0
  ELSE IF projectile[s].is_aoe
       THEN Count(QueryRadius(Grid, valid, position, projectile[s].position,
                              projectile[s].aoe_radius, projectile[s].faction, FALSE), e)
       ELSE IF FindNearest(Grid, valid, position, projectile[s].position, ImpactRadius,
                           projectile[s].faction, FALSE) = e
            THEN 1 ELSE 0

\* C18: each melee hit, single-target impact and area impact takes exactly
\* max(0, damage - shield) from the victim's current health: over a Melee or
\* a Projectiles stage every entity loses the sum of that over the hits it
\* takes, its health never rises, and hits of damage <= shield leave it as
\* it was.
C18_DamageMinusShield ==
  [][/\ stage = "melee" =>
          \A e \in valid : health[e].has =>
             LET Loss(a) == Max(0, direct_damage[a].damage - health[e].shield)
             IN /\ health'[e].current =
                     health[e].current - Total(Loss, {a \in Entity : MeleeHits(a, e)})
                /\ health'[e].current <= health[e].current
                /\ (\A a \in Entity : MeleeHits(a, e) => direct_damage[a].damage <= health[e].shield)
                     => health'[e] = health[e]
     /\ stage = "projectiles" =>
          \A e \in valid : health[e].has =>
             LET Loss(s) == ShotHits(s, e) * Max(0, projectile[s].damage - health[e].shield)
             IN /\ health'[e].current = health[e].current - Total(Loss, Shot)
                /\ health'[e].current <= health[e].current
                /\ (\A s \in Shot : ShotHits(s, e) > 0 => projectile[s].damage <= health[e].shield)
                     => health'[e] = health[e]]_vars

\* the Melee stage of the first update is over: attacker a has hit (its
\* timer is back at 0) a target whose shield is below the damage and not 0,
\* and the target has lost damage - shield
C18_Witness ==
  /\ stage = "ranged"
  /\ ticks = 1
  /\ \E a \in attacking :
       LET t == attack_target[a].target IN
       /\ direct_damage[a].has
       /\ direct_damage[a].timer = 0
       /\ t \in valid
       /\ health[t].shield > 0
       /\ health[t].shield < direct_damage[a].damage
       /\ health[t].current = health[t].max - (direct_damage[a].damage - health[t].shield)

\* what the Death stage does: every entity with Health.current <= 0 at the
\* scan is gone from the registry and from every bucket, and every other
\* entity stays, with its health and in its bucket
C19_DeathStage ==
  [][stage = "death" =>
       /\ \A e \in valid :
            IF health[e].has /\ health[e].current <= 0
            THEN /\ e \notin valid'
                 /\ ~node'[e].has
                 /\ \A o \in valid' : node'[o].next # e /\ node'[o].prev # e
            ELSE /\ e \in valid'
                 /\ health'[e] = health[e]
                 /\ position'[e] = position[e]
       /\ valid' \subseteq valid
       /\ \A f \in Factions : \A c \in 0 .. (NumCells - 1) :
            /\ Range(Buckets'[f][c]) = Range(Buckets[f][c]) \cap valid'
            /\ Cardinality(Range(Buckets'[f][c])) = Len(Buckets'[f][c])
       /\ \A e \in valid' : health'[e].has => health'[e].current > 0]_vars

\* C19: the Death stage removes from the index and destroys every entity
\* with Health.current <= 0 at its scan and no other; and an entity that the
\* Melee stage left at health <= 0 is still at health <= 0 when the Death
\* stage of that update scans, so it is gone when the update ends.
C19_DeadAreDestroyed ==
  [][/\ stage = "death" =>
          \A e \in valid :
             (e \notin valid') <=> (health[e].has /\ health[e].current <= 0)
     /\ stage \in {"ranged", "healer", "projectiles"} =>
          \A e \in valid :
             (health[e].has /\ health[e].current <= 0) => health'[e].current <= 0]_vars

\* the projectiles the Projectiles stage that is due resolves
ResolvingShots == {s \in Shot : projectile[s].valid /\ isZero(projectile[s].velocity)}

\* entity e is indexed, of another faction than the owner of projectile s,
\* and within the area radius of the point where s stands
InBlast(s, e) ==
  /\ Indexed(e)
  /\ faction[e].id # projectile[s].faction
  /\ distance_squared(projectile[s].position, position[e])
       <= projectile[s].aoe_radius * projectile[s].aoe_radius

\* C20: in a Projectiles stage that resolves area projectiles only, every
\* indexed entity of another faction than a projectile's owner and within
\* its area radius loses max(0, damage - shield) once for that projectile;
\* entities of the owning faction and entities farther away keep their
\* health.
C20_AreaImpact ==
  [][(/\ stage = "projectiles"
      /\ ResolvingShots # {}
      /\ \A s \in ResolvingShots : projectile[s].is_aoe)
       => \A e \in valid : health[e].has =>
            LET Loss(s) == IF InBlast(s, e)
                           THEN Max(0, projectile[s].damage - health[e].shield) ELSE 0
            IN /\ health'[e].current = health[e].current - Total(Loss, ResolvingShots)
               /\ (\A s \in ResolvingShots : ~InBlast(s, e)) => health'[e] = health[e]]_vars

\* the first update has resolved the area projectile a ballista b fired at
\* v, which stands within the area radius of b: v, whose only enemies are
\* ballistas, has lost
\* damage - shield; b, of the owning faction and within the radius of the
\* impact on v, and an entity of v's faction beyond the radius are unharmed
C20_Witness ==
  /\ stage = "death"
  /\ ticks = 1
  /\ \E b \in valid, v \in valid, far \in valid :
       /\ emitter[b].has
       /\ emitter[b].projectile_type = 1
       /\ attack_target[b].target = v
       /\ faction[v].id # faction[b].id
       /\ \A o \in valid : faction[o].id # faction[v].id =>
                              (emitter[o].has /\ emitter[o].projectile_type = 1)
       /\ health[v].current < health[v].max
       /\ health[v].current = health[v].max - (emitter[b].damage - health[v].shield)
       /\ distance_squared(position[b], position[v]) <= emitter[b].aoe_radius * emitter[b].aoe_radius
       /\ health[b].current = health[b].max
       /\ far # v
       /\ faction[far].id = faction[v].id
       /\ Indexed(far)
       /\ distance_squared(position[far], position[v]) > emitter[b].aoe_radius * emitter[b].aoe_radius
       /\ health[far].current = health[far].max

\* the healers whose pulse is due in the Healer stage that is due and whose
\* query hands over e: e is indexed, of the healer's faction and within its
\* range
PulsesOn(e) ==
  {h \in valid :
     /\ healer[h].has
     /\ faction[h].has
     /\ healer[h].timer + dt >= healer[h].cooldown
     /\ Indexed(e)
     /\ faction[e].id = faction[h].id
     /\ distance_squared(position[h], position[e]) <= healer[h].range * healer[h].range}

\* C21: over a Healer stage every entity with Health ends at
\* min(max, current + heal_amount of every pulse that reaches it), its max and
\* shield as they were; an entity no pulse reaches (another faction, beyond the
\* range) keeps its health; and after every step of the simulation
\* Health.current <= Health.max for every entity.
C21_HealClamped ==
  [][/\ stage = "healer" =>
          \A e \in valid : health[e].has =>
             LET Amount(h) == healer[h].heal_amount
             IN /\ health'[e] =
                     [health[e] EXCEPT
                        !.current = Min(health[e].max, @ + Total(Amount, PulsesOn(e)))]
                /\ PulsesOn(e) = {} => health'[e] = health[e]
     /\ \A e \in valid' : health'[e].has => health'[e].current <= health'[e].max]_vars

\* the Healer stage of the first update is over: two footmen of different
\* factions have hit each other in its Melee stage, each losing 1 of 3; the
\* healer h, whose heal_amount is 2, has pulsed within range of both; its
\* ally is at max (not max + 1) and the other footman still lacks 1
C21_Witness ==
  /\ stage = "projectiles"
  /\ ticks = 1
  /\ \E a \in valid, t \in valid, h \in valid :
       /\ direct_damage[a].has /\ direct_damage[t].has
       /\ attack_target[a].target = t /\ attack_target[t].target = a
       /\ direct_damage[a].timer = 0 /\ direct_damage[t].timer = 0
       /\ healer[h].has
       /\ healer[h].timer = 0
       /\ healer[h].heal_amount = 2
       /\ faction[h].id = faction[a].id
       /\ faction[h].id # faction[t].id
       /\ distance_squared(position[h], position[a]) <= healer[h].range * healer[h].range
       /\ distance_squared(position[h], position[t]) <= healer[h].range * healer[h].range
       /\ health[a].current = health[a].max
       /\ health[t].current = health[t].max - 1

\* C22: in every state the simulation is in between two stages, each bucket
\* chains, once each, existing entities whose SpatialNode records that bucket
\* and whose Faction id and the cell of whose Position are that bucket's; and
\* every existing unit (spawned, so inserted, and not removed) is chained in
\* the bucket of its Faction id and the cell of its Position.
C22_IndexMatchesRegistry ==
  /\ \A f \in Factions : \A c \in 0 .. (NumCells - 1) :
       LET b == Bucket(f, c)
       IN /\ Cardinality(Range(b)) = Len(b)
          /\ \A e \in Range(b) :
               /\ e \in valid
               /\ node[e].has
               /\ node[e].faction = f
               /\ node[e].cell_index = c
               /\ faction[e].has
               /\ faction[e].id = f
               /\ getCellIndex(position[e]) = c
  /\ \A e \in valid :
       /\ faction[e].has
       /\ faction[e].id \in Factions
       /\ e \in Range(Bucket(faction[e].id, getCellIndex(position[e])))

\* two updates are over: a unit sent across the border of cells 0 and 1 is
\* on the move in cell 1, off the spots units are spawned at; a follower
\* has gone to x = 2, in cell 1; and an entity has died, its identifier
\* being free below one in use
C22_Witness ==
  /\ stage = "idle"
  /\ ticks = 2
  /\ \E m \in valid :
       /\ movement[m].has
       /\ ~isZero(movement[m].velocity)
       /\ position[m] \notin SpawnSpots
       /\ getCellIndex(position[m]) = 1
       /\ m \in Range(Bucket(faction[m].id, 1))
  /\ \E h \in valid :
       /\ follow[h].has
       /\ position[h] = Vec2(2, 1)
       /\ h \in Range(Bucket(faction[h].id, 1))
  /\ \E e \in Entity \ valid : \E o \in valid : o > e

\* C23: with Insert applied only to entities that are not indexed, after
\* any sequence of Insert, Remove and Update every bucket is a finite list
\* without repetition that ends at null; its head has prev = null, each
\* member's next and prev are its neighbours in the list, among chained
\* entities a.next = b exactly when b.prev = a, each member's SpatialNode
\* records the bucket's cell and faction, and every indexed entity is a
\* member of the bucket it records: the walk of a query over a bucket ends.
C23_BucketsAreLists ==
  /\ \A f \in Factions : \A c \in 0 .. (NumCells - 1) :
       LET b == Bucket(f, c)
       IN /\ Len(b) <= NumEntities
          /\ Cardinality(Range(b)) = Len(b)
          /\ cells[f][c] # NULL => node[cells[f][c]].prev = NULL
          /\ \A i \in 1 .. Len(b) :
               /\ node[b[i]].has
               /\ node[b[i]].cell_index = c
               /\ node[b[i]].faction = f
               /\ node[b[i]].next = (IF i < Len(b) THEN b[i + 1] ELSE NULL)
               /\ node[b[i]].prev = (IF i > 1 THEN b[i - 1] ELSE NULL)
  /\ \A a \in Entity, b \in Entity :
       (Indexed(a) /\ Indexed(b)) => (node[a].next = b <=> node[b].prev = a)
  /\ \A e \in Entity :
       Indexed(e) =>
         /\ node[e].faction \in Factions
         /\ node[e].cell_index \in 0 .. (NumCells - 1)
         /\ e \in Range(Bucket(node[e].faction, node[e].cell_index))

\* an Update has just carried an entity into another cell, where it heads a
\* bucket of two, while a third entity has been removed and keeps its empty
\* SpatialNode
C23_Witness ==
  /\ call.op = "Update"
  /\ call.crossed
  /\ call.was
  /\ \E f \in Factions : \E c \in 0 .. (NumCells - 1) :
       /\ Len(Bucket(f, c)) = 2
       /\ Bucket(f, c)[1] = call.e
  /\ \E e \in Entity : node[e].has /\ ~Indexed(e)

\* the Targeting stage that is due runs its pass
PassDue == stage = "targeting" /\ _targeting_timer + dt >= _targeting_interval

\* C24: when the Targeting stage has run its pass, every existing entity
\* with a weapon (melee or ranged), an AttackTarget and a Faction id in
\* [0, 8) carries the attacking tag exactly when its target is not null, and
\* a target that is not null is an existing entity of another faction with
\* current health > 0 and no farther away than the weapon's range.
C24_TagFollowsTarget ==
  [][PassDue =>
       \A e \in valid' :
         (/\ attack_target'[e].has
          /\ direct_damage'[e].has \/ emitter'[e].has
          /\ faction'[e].has
          /\ faction'[e].id \in Factions)
           => LET t == attack_target'[e].target
              IN /\ e \in attacking' <=> t # NULL
                 /\ t # NULL =>
                      /\ t \in valid'
                      /\ faction'[t].has
                      /\ faction'[t].id # faction'[e].id
                      /\ health'[t].has
                      /\ health'[t].current > 0
                      /\ distance_squared(position'[e], position'[t])
                           <= WeaponRange(e) * WeaponRange(e)]_vars

\* the pass of the second update is over; an entity died in the first, and a
\* melee unit whose weapon reaches no living enemy has no target and no tag
\* while a ranged unit holds a living target within its range and the tag
C24_Witness ==
  /\ stage = "melee"
  /\ ticks = 2
  /\ _targeting_timer = 0
  /\ \E x \in Entity \ valid : \E o \in valid : o > x
  /\ \E f \in valid :
       /\ direct_damage[f].has
       /\ attack_target[f].target = NULL
       /\ f \notin attacking
  /\ \E r \in valid :
       /\ emitter[r].has
       /\ r \in attacking
       /\ attack_target[r].target \in valid
       /\ health[attack_target[r].target].current > 0
       /\ distance_squared(position[r], position[attack_target[r].target])
            <= emitter[r].range * emitter[r].range

\* C25: the Targeting stage adds dt to _targeting_timer and runs its pass
\* exactly when the sum has reached _targeting_interval, and then the timer
\* is back at 0; no other stage touches the timer, so it is the simulated
\* time since the last pass and two passes are at least one interval apart;
\* a Targeting stage without a pass changes no target and no attacking tag.
C25_PassOnInterval ==
  [][/\ stage = "targeting" =>
          /\ _targeting_timer + dt >= _targeting_interval => _targeting_timer' = 0
          /\ _targeting_timer + dt < _targeting_interval =>
               /\ _targeting_timer' = _targeting_timer + dt
               /\ UNCHANGED <<attack_target, attacking>>
          /\ (attack_target' # attack_target \/ attacking' # attacking)
               => _targeting_timer + dt >= _targeting_interval
     /\ stage # "targeting" => UNCHANGED _targeting_timer]_vars

\* the second update, half a second long, is past its Targeting stage: the
\* pass of the first update gave a unit a target that died in that update,
\* and half a second later no pass ran, so the unit still holds the
\* destroyed target and the tag
C25_Witness ==
  /\ stage = "melee"
  /\ ticks = 2
  /\ dt = 1
  /\ _targeting_timer = 1
  /\ \E e \in attacking :
       /\ attack_target[e].target # NULL
       /\ attack_target[e].target \notin valid

\* C26: the Movement stage leaves the Position and the Movement (velocity,
\* target) of every entity that carries the attacking tag as they were, and
\* the entity in the bucket it was chained in; in no stage does a tagged
\* entity that goes on existing change its Position, and it loses the tag
\* only in a Targeting stage that runs its pass.
C26_EngagedStaysPut ==
  [][/\ stage = "movement" =>
          \A e \in attacking :
             /\ position'[e] = position[e]
             /\ movement'[e] = movement[e]
             /\ node'[e].cell_index = node[e].cell_index
             /\ node'[e].faction = node[e].faction
             /\ \A f \in Factions : \A c \in 0 .. (NumCells - 1) :
                  e \in Range(Buckets[f][c]) <=> e \in Range(Buckets'[f][c])
     /\ \A e \in attacking :
          e \in valid' =>
             /\ position'[e] = position[e]
             /\ e \notin attacking' => PassDue]_vars

\* the Movement stage of the second update is over: a unit that was sent
\* off before the first update, and was tagged in it short of its target,
\* still has its velocity and stands where the first update left it, off the
\* spots and short of the target
C26_Witness ==
  /\ stage = "follow"
  /\ ticks = 2
  /\ \E e \in attacking :
       /\ movement[e].has
       /\ ~isZero(movement[e].velocity)
       /\ position[e] \notin SpawnSpots
       /\ position[e] # movement[e].target
       /\ attack_target[e].target \in valid

\* the melee attackers: the view of update_melee_combat
MeleeView ==
  {a \in valid : direct_damage[a].has /\ attack_target[a].has /\ a \in attacking
                 /\ faction[a].has}

\* what update_melee_combat tests before a hit: over a Melee stage an
\* attacker's timer is back at 0 exactly when timer + dt had reached the
\* cooldown and its target exists, has Health and is within range; else the
\* timer is timer + dt; an entity no such attacker targets keeps its health
C27_MeleeGuards ==
  [][stage = "melee" =>
       /\ \A a \in MeleeView :
            LET t == attack_target[a].target
                hit == /\ MeleeHits(a, t)
                       /\ t # NULL
                       /\ t \in valid
                       /\ health[t].has
            IN direct_damage'[a].timer =
                 IF hit THEN 0 ELSE direct_damage[a].timer + dt
       /\ \A a \in valid \ MeleeView : direct_damage'[a] = direct_damage[a]
       /\ \A t \in valid :
            (\A a \in MeleeView : ~MeleeHits(a, t)) => health'[t] = health[t]]_vars

\* C27: a melee attacker hits (applies its damage and resets its timer) only
\* if its timer has reached the cooldown and its target exists, is within
\* range and has current health > 0 at the moment of the hit: so the last of
\* the hits a target takes in a Melee stage found it above 0; in every other
\* case the timer is not reset and the target's health is left alone.
C27_MeleeHitsOnlyLiving ==
  [][stage = "melee" =>
       /\ \A a \in MeleeView :
            LET t == attack_target[a].target
            IN IF direct_damage'[a].timer = 0
               THEN /\ direct_damage[a].timer + dt >= direct_damage[a].cooldown
                    /\ t # NULL
                    /\ t \in valid
                    /\ health[t].current > 0
                    /\ distance_squared(position[a], position[t])
                         <= direct_damage[a].range * direct_damage[a].range
               ELSE direct_damage'[a].timer = direct_damage[a].timer + dt
       /\ \A t \in valid :
            LET Hitters == {a \in MeleeView :
                              attack_target[a].target = t /\ direct_damage'[a].timer = 0}
            IN IF Hitters = {} THEN health'[t] = health[t]
               ELSE \E a \in Hitters :
                      health'[t].current + Max(0, direct_damage[a].damage - health[t].shield) > 0]_vars

\* the entities the Movement stage that is due moves: those with a Movement
\* and without the attacking tag
Movers == {e \in valid : movement[e].has /\ e \notin attacking}

\* where a mover at pos with velocity v stands after dt
Advance(pos, v) == Vec2(pos.x + v.x * dt, pos.y + v.y * dt)

\* what processMovement tests: a unit or projectile on the move stops
\* (velocity zero, target its new position) exactly when its new position is
\* within 0.5 of the target or the target lay behind the position it had
\* before the move; one at rest keeps its position
C28_ArrivalRule ==
  [][stage = "movement" =>
       /\ \A e \in Movers :
            LET m == movement[e]
                new_pos == Advance(position[e], m.velocity)
                stops == \/ 4 * distance_squared(new_pos, m.target) < 1
                         \/ dot(Vec2(m.target.x - position[e].x, m.target.y - position[e].y),
                                m.velocity) < 0
            IN IF isZero(m.velocity)
               THEN position'[e] = position[e] /\ movement'[e] = m
               ELSE /\ position'[e] = new_pos
                    /\ movement'[e] = IF stops
                                      THEN [m EXCEPT !.velocity = Vec2(0, 0), !.target = new_pos]
                                      ELSE m
       /\ \A s \in Shot :
            LET pr == projectile[s]
                new_pos == Advance(pr.position, pr.velocity)
                stops == \/ 4 * distance_squared(new_pos, pr.target) < 1
                         \/ dot(Vec2(pr.target.x - pr.position.x, pr.target.y - pr.position.y),
                                pr.velocity) < 0
            IN (pr.valid /\ ~isZero(pr.velocity)) =>
                 /\ projectile'[s].position = new_pos
                 /\ isZero(projectile'[s].velocity) <=> stops]_vars

\* C28: a unit or projectile on the move whose new position lies beyond its
\* target along its velocity, or within 0.5 of the target, has velocity zero
\* and its new position as target when that Movement stage ends; a unit at
\* rest keeps its Position, its Movement and its place in the index.
C28_StopsWhenPassing ==
  [][stage = "movement" =>
       /\ \A e \in Movers :
            LET m == movement[e]
                new_pos == Advance(position[e], m.velocity)
                passed == dot(Vec2(m.target.x - new_pos.x, m.target.y - new_pos.y),
                              m.velocity) < 0
                near == 4 * distance_squared(new_pos, m.target) < 1
            IN IF isZero(m.velocity)
               THEN /\ position'[e] = position[e]
                    /\ movement'[e] = m
                    /\ node'[e].cell_index = node[e].cell_index
                    /\ node'[e].faction = node[e].faction
               ELSE /\ position'[e] = new_pos
                    /\ (passed \/ near) =>
                         /\ isZero(movement'[e].velocity)
                         /\ movement'[e].target = new_pos
       /\ \A s \in Shot :
            LET pr == projectile[s]
                new_pos == Advance(pr.position, pr.velocity)
                passed == dot(Vec2(pr.target.x - new_pos.x, pr.target.y - new_pos.y),
                              pr.velocity) < 0
                near == 4 * distance_squared(new_pos, pr.target) < 1
            IN (pr.valid /\ ~isZero(pr.velocity)) =>
                 /\ projectile'[s].position = new_pos
                 /\ (passed \/ near) =>
                      /\ isZero(projectile'[s].velocity)
                      /\ projectile'[s].target = new_pos]_vars

\* C29: over a Projectiles stage every projectile with zero velocity is
\* gone, whether or not an entity lost health, and every projectile with a
\* velocity that is not zero is exactly as it was; no projectile appears,
\* and when no projectile has zero velocity no entity's health changes.
C29_ResolvedIffAtRest ==
  [][stage = "projectiles" =>
       /\ \A s \in Shot :
            IF projectile[s].valid /\ isZero(projectile[s].velocity)
            THEN ~projectile'[s].valid
            ELSE projectile'[s] = projectile[s]
       /\ ResolvingShots = {} => health' = health
       /\ valid' = valid]_vars

\* the Projectiles stage of the first update is over: two ranged units have
\* fired in it, one at a target on its own spot, whose shield is not below the
\* damage, one at a target elsewhere; the first projectile is gone with every
\* entity at full health, the second is in flight
C29_Witness ==
  /\ stage = "death"
  /\ ticks = 1
  /\ \E a \in attacking, b \in attacking :
       /\ a # b
       /\ emitter[a].has /\ emitter[b].has
       /\ emitter[a].timer = 0 /\ emitter[b].timer = 0
       /\ attack_target[a].target \in valid
       /\ attack_target[b].target \in valid
       /\ position[attack_target[a].target] = position[a]
       /\ health[attack_target[a].target].shield >= emitter[a].damage
       /\ position[attack_target[b].target] # position[b]
  /\ Cardinality({s \in Shot : projectile[s].valid}) = 1
  /\ \A s \in Shot : projectile[s].valid => ~isZero(projectile[s].velocity)
  /\ \A e \in valid : health[e].current = health[e].max

\* the entities the coarse pass of a query over the whole world hands on
WholeWorld == Candidates(Grid, GridsFrom(Grid, 0, -1), LowCorner, HighCorner)

\* C30: a projectile is never a member of the Spatial Index, also after a
\* save is restored: no projectile has a SpatialNode, no bucket and no link
\* of a chain holds a projectile, every entity a query over the whole world
\* reaches is a unit, and every attack target and follow target is a unit or
\* null.
C30_ProjectileNeverIndexed ==
  /\ \A s \in Shot : projectile[s].node = NoNode
  /\ \A f \in Factions, c \in 0 .. (NumCells - 1) : cells[f][c] \in Entity \cup {NULL}
  /\ \A e \in Entity : node[e].next \in Entity \cup {NULL} /\ node[e].prev \in Entity \cup {NULL}
  /\ Range(WholeWorld) \subseteq valid
  /\ \A e \in valid :
       /\ attack_target[e].target \in Entity \cup {NULL}
       /\ follow[e].target \in Entity \cup {NULL}

\* a save taken after the first update has been restored: a projectile is in
\* flight, every unit is back in the index, and the index counts the units
C30_Witness ==
  /\ call.op = "LoadGame"
  /\ ticks = 1
  /\ \E s \in Shot : projectile[s].valid /\ ~isZero(projectile[s].velocity)
  /\ \A e \in valid : Indexed(e)
  /\ Cardinality(valid) >= 2
  /\ \A f \in Factions : entity_count[f] = Cardinality({e \in valid : faction[e].id = f})

\* C31: in a run where updates with dt > 0 keep occurring, every projectile
\* in flight is destroyed after finitely many of them.
C31_ProjectileResolves ==
  ([]<><<\E d \in MarchDts : Tick(d)>>_vars)
    => \A s \in Shot : (projectile[s].valid ~> ~projectile[s].valid)

\* a projectile that flew past its target has come to rest beyond it and is
\* about to be resolved, later than the second update
C31_Witness ==
  /\ stage = "projectiles"
  /\ ticks = MaxTicks
  /\ \E s \in Shot :
       /\ projectile[s].valid
       /\ isZero(projectile[s].velocity)
       /\ \A e \in valid : position[e] # projectile[s].position

\* in the unending run no unit changes its position
C32_UnitsStand ==
  [][\A e \in valid \cap valid' : position'[e] = position[e]]_vars

\* C32: a single-target projectile that resolves while the entity it was
\* fired at is alive, where that entity has not moved, has come to rest
\* within the impact radius of that entity.
C32_HitsStandingTarget ==
  stage = "projectiles" =>
    \A s \in Shot :
      LET pr == projectile[s] IN
      (/\ Resolving(World, s)
       /\ ~pr.is_aoe
       /\ pr.aimed_at \in valid
       /\ health[pr.aimed_at].current > 0)
      => distance_squared(pr.position, position[pr.aimed_at]) <= ImpactRadius * ImpactRadius

FollowMoves ==
  {<<e, follow'[e].target>> : e \in {x \in valid \cap valid' :
       /\ follow[x].has
       /\ position'[x] # position[x]
       /\ follow'[x].target \in valid
       /\ position'[follow'[x].target] = position[follow'[x].target]}}

\* what update_follow keeps to: it moves a follower only from beyond
\* follow-range, and the follower ends at follow-range or farther from the
\* followed entity, or on the very spot of that entity
C34_FollowGuards ==
  [][stage = "follow" =>
       /\ \A e \in valid \cap valid' :
            position'[e] # position[e] => follow[e].has /\ follow'[e].target \in valid
       /\ \A m \in FollowMoves :
            LET range_sq == follow[m[1]].followRange * follow[m[1]].followRange IN
            /\ distance_squared(position[m[1]], position[m[2]]) > range_sq
            /\ \/ distance_squared(position'[m[1]], position'[m[2]]) >= range_sq
               \/ position'[m[1]] = position'[m[2]]]_vars

\* C34: the Follow stage moves a follower only when its distance to the
\* followed entity exceeds follow-range, and a follower it has moved is at
\* follow-range or farther from that entity.
C34_NeverCloserThanRange ==
  [][stage = "follow" =>
       \A m \in FollowMoves :
         LET range_sq == follow[m[1]].followRange * follow[m[1]].followRange IN
         /\ distance_squared(position[m[1]], position[m[2]]) > range_sq
         /\ distance_squared(position'[m[1]], position'[m[2]]) >= range_sq]_vars

\* the armed entities whose AttackTarget names an entity that no longer
\* exists
Stale ==
  {e \in valid :
     /\ attack_target[e].has
     /\ faction[e].has
     /\ direct_damage[e].has \/ emitter[e].has
     /\ attack_target[e].target # NULL
     /\ attack_target[e].target \notin valid}

\* C35: a targeting pass leaves every attacker whose target had been
\* destroyed either with a null reference and without the attacking tag, or
\* with the tag and a reference to an existing entity of another faction
\* within its weapon's range; after a pass no reference names a destroyed
\* entity.
C35_StaleTargetDropped ==
  [][PassDue =>
       /\ \A e \in Stale :
            LET t == attack_target'[e].target
            IN \/ t = NULL /\ e \notin attacking'
               \/ /\ t \in valid'
                  /\ e \in attacking'
                  /\ faction'[t].id # faction'[e].id
                  /\ distance_squared(position'[e], position'[t])
                       <= WeaponRange(e) * WeaponRange(e)
       /\ \A e \in valid' :
            attack_target'[e].has => attack_target'[e].target \in valid' \cup {NULL}]_vars

\* a pass is over that found a stale reference: the only unit left is a
\* melee unit without target and tag, and a projectile of another faction,
\* fired by a unit that has been destroyed since, is still in flight
C35_Witness ==
  /\ stage = "melee"
  /\ _targeting_timer = 0
  /\ Cardinality(valid) = 1
  /\ \E e \in valid :
       /\ direct_damage[e].has
       /\ attack_target[e].target = NULL
       /\ e \notin attacking
       /\ \E s \in Shot :
            /\ projectile[s].valid
            /\ projectile[s].faction # faction[e].id
            /\ projectile[s].aimed_at = e

\* what the stage that is due leaves when its views hand out the entities in
\* the order ord
StageResult(ord) ==
  CASE stage = "movement" -> update_movement(World, ord, dt)
    [] stage = "follow" -> update_follow(World, ord, dt)
    [] stage = "targeting" -> update_targeting(World, ord, dt)
    [] stage = "melee" -> update_melee_combat(World, ord, dt)
    [] stage = "ranged" -> update_ranged_combat(World, ord, dt)
    [] stage = "healer" -> update_healer(World, ord, dt)
    [] stage = "projectiles" -> update_projectiles(World, ShotOrder, dt)
    [] OTHER -> update_death(World, ord, dt)

\* a world with its projectiles taken as a collection, whatever identifiers
\* registry.create() gave them
Outcome(W) == [W EXCEPT !.projectile = {W.projectile[s] : s \in Shot}, !.full = FALSE]

\* every stage but Follow leaves the same registry and the same grid
\* whatever the order of its visits
C36_OtherStagesAgree ==
  [][(stage \notin {"idle", "follow"}) =>
       \A ord \in Orders : LET R == StageResult(ord) IN ~R.full => Outcome(R) = Outcome(World')]_vars

\* C36: the state a stage leaves does not depend on the order in which it
\* visits its entities: every order leads to the state the stage has left.
C36_OrderIndependent ==
  [][stage # "idle" =>
       \A ord \in Orders : LET R == StageResult(ord) IN ~R.full => Outcome(R) = Outcome(World')]_vars

\* the delete command of a step has gone over the rectangle (min, max)
Deleting == call'.op = "DeleteRect"

\* what the delete command keeps to: it destroys only entities that were
\* indexed with a Position in the rectangle, each once, and every other
\* entity stays alive and indexed as it was
C37_DeletesOnlyInside ==
  [][Deleting =>
       /\ \A e \in valid :
            e \notin valid' <=> Count(call'.out, e) = 1
       /\ \A e \in Range(call'.out) :
            Indexed(e) /\ InRect(position[e], call'.a, call'.b)
       /\ \A e \in valid' :
            /\ position'[e] = position[e]
            /\ Indexed(e) => node'[e].has /\ node'[e].cell_index = node[e].cell_index]_vars

\* C37: the delete command removes and destroys every indexed entity whose
\* Position lies in the rectangle, leaves every other entity alive and
\* indexed, and its traversal never reads a link through the SpatialNode of
\* an entity the callback has destroyed.
C37_DeleteRectSafe ==
  [][Deleting =>
       /\ \A e \in valid :
            (Indexed(e) /\ InRect(position[e], call'.a, call'.b)) <=> e \notin valid'
       /\ \A e \in valid' : Indexed(e) => node'[e].has /\ node'[e].cell_index = node[e].cell_index
       /\ ~call'.stale]_vars

\* floor(v / cell_size) clamped to the cells 0 .. n - 1 of an axis
FloorCoord(v, n) == Max(0, Min(v \div _cell_size, n - 1))

FloorIndex(pos) == FloorCoord(pos.x, _cols) + FloorCoord(pos.y, _rows) * _cols

\* C38: the cell computed for a coordinate, negative ones included, is
\* floor(coordinate / cell_size) clamped to [0, cells_per_axis - 1]: every
\* indexed entity is filed under that cell of its Position, and the cell
\* range of a rectangle query is that of its two corners.
C38_FloorThenClamp ==
  /\ \A e \in valid : Indexed(e) => node[e].cell_index = FloorIndex(position[e])
  /\ call.op = "QueryRect" =>
       /\ getCellCoords(call.a) = [x |-> FloorCoord(call.a.x, _cols), y |-> FloorCoord(call.a.y, _rows)]
       /\ getCellCoords(call.b) = [x |-> FloorCoord(call.b.x, _cols), y |-> FloorCoord(call.b.y, _rows)]

\* an entity is indexed at a negative coordinate that truncation and floor
\* send to different cells before the clamp, and a rectangle with a negative
\* corner has been queried
C38_Witness ==
  /\ call.op = "QueryRect"
  /\ call.a.x < 0
  /\ \E e \in valid :
       /\ Indexed(e)
       /\ position[e].x < 0
       /\ TruncDiv(position[e].x, _cell_size) # position[e].x \div _cell_size

\* how often entity e is chained in the bucket of partition f and cell c
\* after the step
ChainedIn(e, f, c) == Count(Walk(node', cells'[f][c], WalkFuel), e)

\* C39: a LoadGame leaves the index rebuilt from scratch: an entity is
\* indexed exactly when it is among the restored entities and has a Faction
\* id in [0, 8) (every restored unit has a Position), it is chained once in
\* the bucket of its faction and its Position's cell and in no other bucket,
\* the stored counts are those of the chained entities, and an entity that
\* was there before the load and is not restored is in no bucket and has no
\* SpatialNode.
C39_IndexRebuilt ==
  [][call'.op = "LoadGame" =>
       /\ \A e \in Entity :
            LET in == e \in valid' /\ faction'[e].has /\ faction'[e].id \in Factions IN
            /\ node'[e].has <=> in
            /\ \A f \in Factions, c \in 0 .. (NumCells - 1) :
                 ChainedIn(e, f, c) =
                   IF in /\ f = faction'[e].id /\ c = getCellIndex(position'[e]) THEN 1 ELSE 0
            /\ in => node'[e].faction = faction'[e].id
                     /\ node'[e].cell_index = getCellIndex(position'[e])
       /\ \A f \in Factions :
            entity_count'[f] = Cardinality({e \in valid' : faction'[e].has /\ faction'[e].id = f})
       /\ \A e \in valid \ valid' :
            /\ ~node'[e].has
            /\ \A f \in Factions, c \in 0 .. (NumCells - 1) : ChainedIn(e, f, c) = 0]_vars

\* a save taken when one unit had been spawned has been loaded after two
\* more were: the unit of the save is indexed, the others are gone
C39_Witness ==
  /\ call.op = "LoadGame"
  /\ call.r = 1
  /\ valid = {1}
  /\ Indexed(1)
  /\ \A e \in Entity \ {1} : ~node[e].has
  /\ entity_count[faction[1].id] = 1

\* a save has been restored after the first update with a unit whose
\* faction id is 8 among the restored: it is not indexed, the others are
C39_WitnessOutOfRange ==
  /\ call.op = "LoadGame"
  /\ ticks = 1
  /\ \E e \in valid : faction[e].id = MAX_FACTIONS /\ ~node[e].has
  /\ \E e \in valid : Indexed(e)

\* the entities chained in the buckets of partition f
Chained(f) ==
  {e \in Entity : \E c \in 0 .. (NumCells - 1) : Count(Bucket(f, c), e) > 0}

\* Without a Clear among the calls, the stored count of every partition is
\* the number of entities chained in its buckets.
C40_CountWithoutClear ==
  \A f \in Factions : entity_count[f] = Cardinality(Chained(f))

\* C40: after any sequence of Insert, Remove, Update and Clear calls, the
\* stored entity count of every faction partition equals the number of
\* entities chained in its buckets, so a partition that IsEmpty() makes the
\* queries skip holds no entity.
C40_CountMatchesChains ==
  \A f \in Factions :
    /\ entity_count[f] = Cardinality(Chained(f))
    /\ entity_count[f] = 0 => Chained(f) = {}


====
